---- MODULE Spec2Model ----
(***************************************************************************)
(* A model of the cell compiler: the register file (Frame), the lowering   *)
(* of expression trees to three-address code, the event analyzer, the      *)
(* AMD64 code generator with the machine it targets, the bytecode          *)
(* interpreter and the Runnable wrapper.                                   *)
(*                                                                         *)
(* Indices are 0-based as in the Rust source; the TLA+ sequence that holds *)
(* a Vec keeps element i at position i+1.                                  *)
(***************************************************************************)
EXTENDS Integers, Sequences, FiniteSets, TLC

VARIABLES
    frame,      \* SpecFrame, SpecTemps: the Frame under test (words, named, freed)
    last,       \* SpecFrame, SpecTemps: the last Frame call, its argument and its result
    failed,     \* SpecFrame, SpecTemps: "" or the panic message that ended the frame
    prog,       \* SpecLower, SpecRerun, SpecRun, SpecCodegen: the Program being
                \*            lowered (code, frame, vt) and the registers returned
                \*            by the lower() calls still open
                \* SpecCalls: the Program whose code grows by one instruction
    cnt,        \* SpecLower: how many leaves, trees and equations were lowered
                \* SpecMachine: the target architecture and how many names were drawn
                \* SpecTemps: how many calls were made
    step,       \* SpecLower: the last lower() call, its argument and its result
                \* SpecMachine: the last MachineCode call and what it did
    phase,      \* SpecLower: "lower", "compiled" or "ran"; a fixed tag elsewhere
    acode,      \* SpecAnalyzer: the instruction list handed to Analyzer::new
    mach,       \* SpecLower: what AmdCompiler::compile returned
                \* SpecCodegen, SpecStack: the AmdCompiler (machine_code, buf,
                \*            stack, renamer) and the word r in the accumulator
                \* SpecAbi: the processor (rsp, rbx, rbp, stack memory, pc)
                \* SpecRun: the Runnable of CompilerResult::func, <<>> for None
                \* SpecMachine: the MachineCode objects that live
    outcome     \* SpecLower, SpecRerun: the input of the last run and the memory
                \*            that the machine code and the bytecode left
                \* SpecRun: the last call, its arguments and what it returned
                \* SpecMachine: the files, handles and mappings of the process
                \* SpecOps: the last instruction encoded and the encoders' results
                \* SpecTemps: the words alloc(Temp) returned, and the live ones
                \* SpecCodegen: the pass, the position in prog.code, n and the
                \*            sets of the analyzer
                \* SpecStack: the indices the pushes returned, the largest length
                \* SpecAbi: the capacity and the registers on entry

vars == <<frame, last, failed, prog, cnt, step, phase, acode, mach, outcome>>
runVars == <<mach, outcome>>
frameVars == <<frame, last, failed>>
lowerVars == <<prog, cnt, step, phase>>

(***************************************************************************)
(* f64 values.  A double is kept as <<sign, magnitude>> so that 0.0 and    *)
(* -0.0 are different bit patterns that compare equal, as in IEEE 754.     *)
(***************************************************************************)
F(n) == IF n < 0 THEN <<1, -n>> ELSE <<0, n>>
NegZero == <<1, 0>>
ToInt(v) == IF v[1] = 1 THEN -v[2] ELSE v[2]
\* the == of f64: the two zeros are equal
F64Eq(a, b) == (a[2] = 0 /\ b[2] = 0) \/ a = b

(***************************************************************************)
(* register.rs: Word, WordType, Frame                                      *)
(***************************************************************************)
Word(idx, ver) == <<idx, ver>>

Const(v)     == [t |-> "Const", s |-> "",   v |-> v]
Var(s)       == [t |-> "Var",   s |-> s,    v |-> F(0)]
State(s, v)  == [t |-> "State", s |-> s,    v |-> v]
Diff(s)      == [t |-> "Diff",  s |-> s,    v |-> F(0)]
Param(s, v)  == [t |-> "Param", s |-> s,    v |-> v]
Obs(s)       == [t |-> "Obs",   s |-> s,    v |-> F(0)]
Temp         == [t |-> "Temp",  s |-> "",   v |-> F(0)]

ZERO       == Word(0, 0)
ONE        == Word(1, 0)
MINUS_ONE  == Word(2, 0)
MINUS_ZERO == Word(3, 0)

\* words[r.0]
Slot(f, idx) == f.words[idx + 1]

\* format!("δ{}", s): the Diff key is the name behind a one-character mark
DiffKey(s) == "@" \o s

\* the result of a Frame call: the frame after it, the word returned, the panic
Res(f, w, p) == [f |-> f, w |-> w, panic |-> p]

alloc_temp_noversion(f) ==
    IF f.freed # <<>>
    THEN LET w == f.freed[Len(f.freed)]
         IN  Res([f EXCEPT !.freed = SubSeq(f.freed, 1, Len(f.freed) - 1)],
                 Word(w[1], w[2]), "")
    ELSE Res([f EXCEPT !.words = Append(f.words, Temp)],
             Word(Len(f.words), 0), "")

alloc_temp(f) ==
    IF f.freed # <<>>
    THEN LET w == f.freed[Len(f.freed)]
         IN  Res([f EXCEPT !.freed = SubSeq(f.freed, 1, Len(f.freed) - 1)],
                 Word(w[1], w[2] + 1), "")
    ELSE Res([f EXCEPT !.words = Append(f.words, Temp)],
             Word(Len(f.words), 0), "")

\* HashMap::insert(key, idx): the entry is written before the old value is seen
Insert(f, key, idx) ==
    [f EXCEPT !.named = [k \in (DOMAIN f.named) \cup {key} |->
                            IF k = key THEN idx ELSE f.named[k]]]

alloc_nodupcheck(f, t) ==
    LET idx == Len(f.words)
    IN  IF t.t = "Temp" THEN alloc_temp(f)
        ELSE IF t.t = "Const"
        THEN Res([f EXCEPT !.words = Append(f.words, t)], Word(idx, 0), "")
        ELSE LET key == IF t.t = "Diff" THEN DiffKey(t.s) ELSE t.s
                 g == Insert(f, key, idx)
             IN  Res([g EXCEPT !.words = Append(g.words, t)], Word(idx, 0), "")

alloc(f, t) ==
    LET idx == Len(f.words)
    IN  IF t.t = "Temp" THEN alloc_temp(f)
        ELSE IF t.t = "Const"
        THEN Res([f EXCEPT !.words = Append(f.words, t)], Word(idx, 0), "")
        ELSE IF t.t = "Diff"
        THEN IF DiffKey(t.s) \in DOMAIN f.named
             THEN Res(Insert(f, DiffKey(t.s), idx), ZERO, "diff key already exists")
             ELSE LET g == Insert(f, DiffKey(t.s), idx)
                  IN  Res([g EXCEPT !.words = Append(g.words, t)], Word(idx, 0), "")
        ELSE IF t.s \in DOMAIN f.named
             THEN Res(Insert(f, t.s, idx), ZERO, "key already exists")
             ELSE LET g == Insert(f, t.s, idx)
                  IN  Res([g EXCEPT !.words = Append(g.words, t)], Word(idx, 0), "")

free_any(f, r) ==
    IF r[1] >= Len(f.words) THEN Res(f, ZERO, "index out of bounds")
    ELSE Res([f EXCEPT !.freed = Append(f.freed, r)], ZERO, "")

free(f, r) ==
    IF r[1] >= Len(f.words) THEN Res(f, ZERO, "index out of bounds")
    ELSE IF Slot(f, r[1]).t = "Temp"
         THEN Res([f EXCEPT !.freed = Append(f.freed, r)], ZERO, "")
         ELSE Res(f, ZERO, "")

EmptyNamed == [k \in {} |-> 0]

FrameNew ==
    LET f0 == [words |-> <<>>, named |-> EmptyNamed, freed |-> <<>>]
        f1 == alloc(f0, Const(F(0))).f
        f2 == alloc(f1, Const(F(1))).f
        f3 == alloc(f2, Const(F(-1))).f
    IN  alloc(f3, Const(NegZero)).f

is_diff(f, r) == Slot(f, r[1]).t = "Diff"
is_temp(f, r) == Slot(f, r[1]).t = "Temp"
is_obs(f, r)  == Slot(f, r[1]).t = "Obs"

\* Option<Word>: None is NoWord
NoWord == <<-1, -1>>
find(f, s) == IF s \in DOMAIN f.named THEN Word(f.named[s], 0) ELSE NoWord
find_diff(f, s) == find(f, DiffKey(s))

(***************************************************************************)
(* SpecFrame: any sequence of Frame::alloc and Frame::free calls on a      *)
(* frame made by Frame::new.                                               *)
(***************************************************************************)
MaxWords == 6       \* slots in the frame (4 reserved + 2)
MaxFreed == 2       \* entries in the free list
MaxVer   == 1       \* version of a word handed to free

AllocArgs ==
    {Temp, Const(F(2))}
        \cup UNION {{Var(s), State(s, F(2)), Diff(s), Param(s, F(2)), Obs(s)} :
                        s \in {"x", "@x"}}

NoCall == [op |-> "new", t |-> Temp, r |-> NoWord, w |-> NoWord]

InitFrame ==
    /\ frame = FrameNew
    /\ last = NoCall
    /\ failed = ""
    /\ prog = <<>> /\ cnt = <<>> /\ step = <<>> /\ phase = "frame"
    /\ acode = <<>>
    /\ mach = <<>> /\ outcome = <<>>

FrameAlloc ==
    \E t \in AllocArgs :
        /\ failed = ""
        /\ Len(frame.words) < MaxWords
        /\ LET res == alloc(frame, t)
           IN  /\ frame' = res.f
               /\ failed' = res.panic
               /\ last' = [op |-> "alloc", t |-> t, r |-> NoWord, w |-> res.w]
               /\ UNCHANGED <<lowerVars, acode, runVars>>

FrameFree ==
    \E idx \in 0..MaxWords, ver \in 0..MaxVer :
        /\ failed = ""
        /\ idx <= Len(frame.words)
        /\ Len(frame.freed) < MaxFreed
        /\ LET res == free(frame, Word(idx, ver))
           IN  /\ frame' = res.f
               /\ failed' = res.panic
               /\ last' = [op |-> "free", t |-> Temp, r |-> Word(idx, ver), w |-> NoWord]
               /\ UNCHANGED <<lowerVars, acode, runVars>>

NextFrame == FrameAlloc \/ FrameFree

SpecFrame == InitFrame /\ [][NextFrame]_vars

\* C6: after any sequence of alloc and free calls, slots 0..3 are still the
\* Const slots 0.0, 1.0, -1.0, -0.0, the free list holds only words of Temp
\* slots, and no alloc call has returned a word with index 0..3.
C6_ReservedSlots ==
    /\ Slot(frame, 0) = Const(F(0))
    /\ Slot(frame, 1) = Const(F(1))
    /\ Slot(frame, 2) = Const(F(-1))
    /\ Slot(frame, 3) = Const(NegZero)
    /\ \A i \in 1..Len(frame.freed) :
           /\ frame.freed[i][1] < Len(frame.words)
           /\ Slot(frame, frame.freed[i][1]).t = "Temp"
    /\ (last.op = "alloc" /\ failed = "") => last.w[1] >= 4

\* a freed temporary was handed out again while another one is still free
C6_Witness ==
    /\ failed = ""
    /\ last.op = "alloc" /\ last.t = Temp /\ last.w[2] > 0
    /\ frame.freed # <<>>

\* C7: alloc(Temp) with a non-empty free list returns the most recently freed
\* word's index with its version plus one and leaves the frame length as it
\* was; with an empty free list it appends one Temp slot and returns
\* (new index, version 0).
C7_AllocTemp ==
    [][(last'.op = "alloc" /\ last'.t = Temp) =>
          IF frame.freed # <<>>
          THEN LET top == frame.freed[Len(frame.freed)]
               IN  /\ last'.w = Word(top[1], top[2] + 1)
                   /\ frame'.words = frame.words
                   /\ frame'.freed = SubSeq(frame.freed, 1, Len(frame.freed) - 1)
          ELSE /\ frame'.words = Append(frame.words, Temp)
               /\ last'.w = Word(Len(frame.words), 0)
               /\ frame'.freed = <<>>]_vars

\* a reuse: two words were free and the later one came back, one version up
C7_Witness ==
    /\ last.op = "alloc" /\ last.t = Temp /\ last.w[2] = 2
    /\ Len(frame.freed) = 1 /\ frame.freed[1] # Word(last.w[1], 1)

NamedKinds == {"Var", "State", "Param", "Obs"}
KeyOf(t) == IF t.t = "Diff" THEN DiffKey(t.s) ELSE t.s

\* every registered name leads to the one slot that was allocated under it
NamedOk(f) ==
    \A k \in DOMAIN f.named :
        /\ f.named[k] < Len(f.words)
        /\ Slot(f, f.named[k]).t \in NamedKinds \cup {"Diff"}
        /\ KeyOf(Slot(f, f.named[k])) = k
        /\ \A i \in 0..(Len(f.words) - 1) :
               (Slot(f, i).t \in NamedKinds \cup {"Diff"} /\ KeyOf(Slot(f, i)) = k)
                   => i = f.named[k]

\* C8: alloc of a Var/State/Param/Obs whose name is registered fails with
\* "key already exists", a second Diff of a name with "diff key already
\* exists"; in a frame that has not failed each name has one slot, and
\* find(name) returns it after every later alloc and free.
C8_UniqueNames ==
    [][/\ (last'.op = "alloc" /\ last'.t.t \in NamedKinds
                /\ last'.t.s \in DOMAIN frame.named)
            => failed' = "key already exists"
       /\ (last'.op = "alloc" /\ last'.t.t = "Diff"
                /\ DiffKey(last'.t.s) \in DOMAIN frame.named)
            => failed' = "diff key already exists"
       /\ NamedOk(frame)
       /\ failed' = "" =>
            /\ NamedOk(frame')
            /\ \A k \in DOMAIN frame.named : find(frame', k) = find(frame, k)
            /\ \A k \in DOMAIN frame.named :
                   find(frame', k) # NoWord /\ find(frame', k)[2] = 0]_vars

\* a name registered twice: the second alloc panicked, after a slot was added
C8_Witness ==
    /\ failed = "key already exists"
    /\ Len(frame.words) = 5
    /\ "x" \in DOMAIN frame.named

(***************************************************************************)
(* code.rs: Instruction.  One record shape for all variants; the fields a  *)
(* variant does not have hold ZERO, "" or 0.  model.rs pushes its          *)
(* operations as Op{op, x, y, dst, p}: the one pushed by lower_unary and   *)
(* by Equation::lower is the Unary variant read by the analyzer and the    *)
(* backends, the ones pushed by lower_binary, lower_ternary and lower_poly *)
(* are the Binary variant.                                                 *)
(***************************************************************************)
Unary(op, x, dst, p)     == [k |-> "Unary",  op |-> op, x |-> x, y |-> ZERO,
                             c |-> ZERO, dst |-> dst, p |-> p, v |-> F(0)]
Binary(op, x, y, dst, p) == [k |-> "Binary", op |-> op, x |-> x, y |-> y,
                             c |-> ZERO, dst |-> dst, p |-> p, v |-> F(0)]
IfElse(x1, x2, cond, dst) == [k |-> "IfElse", op |-> "", x |-> x1, y |-> x2,
                             c |-> cond, dst |-> dst, p |-> 0, v |-> F(0)]
Num(val, dst)            == [k |-> "Num",    op |-> "", x |-> ZERO, y |-> ZERO,
                             c |-> ZERO, dst |-> dst, p |-> 0, v |-> val]
VarMark(name, reg)       == [k |-> "Var",    op |-> name, x |-> ZERO, y |-> ZERO,
                             c |-> ZERO, dst |-> reg, p |-> 0, v |-> F(0)]
Eq(dst)                  == [k |-> "Eq",     op |-> "", x |-> ZERO, y |-> ZERO,
                             c |-> ZERO, dst |-> dst, p |-> 0, v |-> F(0)]
Nop                      == [k |-> "Nop",    op |-> "", x |-> ZERO, y |-> ZERO,
                             c |-> ZERO, dst |-> ZERO, p |-> 0, v |-> F(0)]

(***************************************************************************)
(* model.rs: Program and the Lower implementations.  lower() is a          *)
(* post-order walk: a tree lowers its arguments in order and then emits    *)
(* its own instructions.  prog.open holds the registers returned by the    *)
(* lower() calls whose parent has not emitted yet, so that one step of the *)
(* model is the part of one lower() call that follows its arguments.       *)
(***************************************************************************)
\* position of f in vt, or None
VtPos(vt, f) ==
    IF \E i \in 1..Len(vt) : vt[i] = f
    THEN (CHOOSE i \in 1..Len(vt) : vt[i] = f /\ \A j \in 1..(i - 1) : vt[j] # f) - 1
    ELSE -1

push(pr, ins) == [pr EXCEPT !.code = Append(pr.code, ins)]

push_op(pr, kind, op, f, x, y, dst) ==
    LET pos == VtPos(pr.vt, f)
        p == IF pos >= 0 THEN pos ELSE Len(pr.vt)
        q == IF pos >= 0 THEN pr ELSE [pr EXCEPT !.vt = Append(pr.vt, f)]
    IN  push(q, IF kind = "Unary" THEN Unary(op, x, dst, p)
                                  ELSE Binary(op, x, y, dst, p))

\* a Frame call made through the program: the frame after it, and the panic
WithFrame(pr, res) ==
    [pr EXCEPT !.frame = res.f,
               !.pan = IF pr.pan # "" THEN pr.pan ELSE res.panic]

prog_free(pr, r) == WithFrame(pr, free(pr.frame, r))

\* Program::reg: the register of a state, parameter, observable or variable
reg(pr, name) == find(pr.frame, name)
reg_diff(pr, name) == find_diff(pr.frame, name)

\* the returned register joins the open ones
Return(pr, w, poly, op) ==
    [pr EXCEPT !.open = Append(pr.open, [w |-> w, poly |-> poly, op |-> op])]
Drop(pr, n) == [pr EXCEPT !.open = SubSeq(pr.open, 1, Len(pr.open) - n)]
Open(pr, k) == pr.open[Len(pr.open) - k].w      \* k = 0: the last one returned

Panic(pr, msg) == [pr EXCEPT !.pan = IF pr.pan # "" THEN pr.pan ELSE msg]

\* Expr::Const: every constant gets a slot
lower_const_noopt(pr, val) ==
    LET res == alloc(pr.frame, Const(val))
        q == WithFrame(pr, res)
    IN  Return(push(q, Num(val, res.w)), res.w, 0, "")

lower_const(pr, val) ==
    IF F64Eq(val, F(0)) THEN Return(pr, Word(0, 0), 0, "")
    ELSE IF F64Eq(val, F(1)) THEN Return(pr, Word(1, 0), 0, "")
    ELSE IF F64Eq(val, F(-1)) THEN Return(pr, Word(2, 0), 0, "")
    ELSE LET res == alloc(pr.frame, Const(val))
             q == WithFrame(pr, res)
         IN  Return(push(q, Num(val, res.w)), res.w, 0, "")

lower_var(pr, name) ==
    LET dst == reg(pr, name)
    IN  IF dst = NoWord THEN Panic(pr, "cannot find reg by name")
        ELSE Return(push(pr, VarMark(name, dst)), dst, 0, "")

\* the function each operator name selects
UnaryFn(op) ==
    CASE op = "minus" -> "neg"
      [] op = "arcsin" -> "asin" [] op = "arccos" -> "acos" [] op = "arctan" -> "atan"
      [] OTHER -> op
BinaryFn(op) == op

lower_unary(pr, op) ==
    LET x == Open(pr, 0)
        y == Word(0, 0)
        a == alloc_temp(pr.frame)
        dst == a.w
        q1 == WithFrame(Drop(pr, 1), a)
        q2 == push_op(q1, "Unary", op, UnaryFn(op), x, y, dst)
        q3 == prog_free(q2, x)
    IN  Return(q3, dst, 0, "")

lower_binary(pr, op) ==
    LET x == Open(pr, 1)
        y == Open(pr, 0)
        a == alloc_temp(pr.frame)
        dst == a.w
        q1 == WithFrame(Drop(pr, 2), a)
        q2 == push_op(q1, "Binary", op, BinaryFn(op), x, y, dst)
        q3 == prog_free(prog_free(q2, x), y)
    IN  Return(q3, dst, 0, "")

\* lower_ternary for op = "ifelse"
lower_ternary(pr) ==
    LET x  == Open(pr, 2)
        y1 == Open(pr, 1)
        y2 == Open(pr, 0)
        a1 == alloc_temp(pr.frame)
        a2 == alloc_temp(a1.f)
        a3 == alloc_temp(a2.f)
        t1 == a1.w
        t2 == a2.w
        dst == a3.w
        q1 == WithFrame(Drop(pr, 3), a3)
        q2 == push_op(q1, "Binary", "if_pos", "if_pos", x, y1, t1)
        q3 == push_op(q2, "Binary", "if_neg", "if_neg", x, y2, t2)
        q4 == push_op(q3, "Binary", "plus", "plus", t1, t2, dst)
        q5 == prog_free(prog_free(prog_free(prog_free(prog_free(q4, x), y1), y2), t1), t2)
    IN  Return(q5, dst, 0, "")

\* one turn of the loop of lower_poly: x is args[0] or the last dst, y is
\* args[i]; n counts the arguments folded so far
lower_poly_step(pr, op) ==
    LET xe == pr.open[Len(pr.open) - 1]
        x == xe.w
        y == Open(pr, 0)
        a == alloc_temp(pr.frame)
        dst == a.w
        q1 == WithFrame(Drop(pr, 2), a)
        q2 == push_op(q1, "Binary", op, op, x, y, dst)
        q3 == prog_free(q2, x)
    IN  Return(q3, dst, IF xe.poly = 0 THEN 2 ELSE 3, op)

\* Equation::lower that adds the right-hand side to what the Diff slot holds
lower_equation_adding(pr, diff, name) ==
    LET src == Open(pr, 0)
        q0 == Drop(pr, 1)
    IN  IF diff
        THEN LET dst == reg_diff(q0, name)
             IN  IF dst = NoWord THEN Panic(q0, "cannot find diff by name")
                 ELSE push_op(q0, "Binary", "plus", "plus", src, dst, dst)
        ELSE LET res == alloc(q0.frame, Obs(name))
                 q1 == WithFrame(q0, res)
             IN  IF res.panic # "" THEN q1
                 ELSE push_op(q1, "Unary", "mov", "mov", src, Word(0, 0), res.w)

\* Equation::lower: lhs is Differential(Var name) (diff = TRUE) or Var name
lower_equation(pr, diff, name) ==
    LET src == Open(pr, 0)
        q0 == Drop(pr, 1)
    IN  IF diff
        THEN LET dst == reg_diff(q0, name)
             IN  IF dst = NoWord THEN Panic(q0, "cannot find diff by name")
                 ELSE push_op(q0, "Unary", "mov", "mov", src, Word(0, 0), dst)
        ELSE LET res == alloc(q0.frame, Obs(name))
                 q1 == WithFrame(q0, res)
             IN  IF res.panic # "" THEN q1
                 ELSE push_op(q1, "Unary", "mov", "mov", src, Word(0, 0), res.w)

\* folds alloc over a list of slots (Program::new)
RECURSIVE AllocAll(_, _)
AllocAll(res, ts) ==
    IF ts = <<>> \/ res.panic # "" THEN res
    ELSE AllocAll(alloc(res.f, ts[1]), Tail(ts))

\* Program::new(ml): Var, the states, their diffs, the parameters
ProgramNew(ml) ==
    LET slots == <<Var(ml.iv)>>
                 \o [i \in 1..Len(ml.states) |-> State(ml.states[i].name, ml.states[i].val)]
                 \o [i \in 1..Len(ml.states) |-> Diff(ml.states[i].name)]
                 \o [i \in 1..Len(ml.params) |-> Param(ml.params[i].name, ml.params[i].val)]
        res == AllocAll(Res(FrameNew, ZERO, ""), slots)
    IN  [code |-> <<>>, frame |-> res.f, vt |-> <<>>, open |-> <<>>, pan |-> res.panic]

(***************************************************************************)
(* analyzer.rs: Event, Analyzer                                            *)
(***************************************************************************)
Producer(w) == [e |-> "Producer", w |-> w, op |-> ""]
Consumer(w) == [e |-> "Consumer", w |-> w, op |-> ""]
Caller(op)  == [e |-> "Caller",   w |-> ZERO, op |-> op]

\* the events with the two branches of an IfElse in the order x1, x2
EventsOfX1First(ins) ==
    CASE ins.k = "Unary"  -> <<Consumer(ins.x), Caller(ins.op), Producer(ins.dst)>>
      [] ins.k = "Binary" -> <<Consumer(ins.y), Consumer(ins.x), Caller(ins.op),
                               Producer(ins.dst)>>
      [] ins.k = "IfElse" -> <<Consumer(ins.c), Consumer(ins.x), Consumer(ins.y),
                               Caller("select"), Producer(ins.dst)>>
      [] OTHER -> <<>>

\* the events of one instruction, in the order Analyzer::new pushes them
EventsOf(ins) ==
    CASE ins.k = "Unary"  -> <<Consumer(ins.x), Caller(ins.op), Producer(ins.dst)>>
      [] ins.k = "Binary" -> <<Consumer(ins.y), Consumer(ins.x), Caller(ins.op),
                               Producer(ins.dst)>>
      [] ins.k = "IfElse" -> <<Consumer(ins.c), Consumer(ins.y), Consumer(ins.x),
                               Caller("select"), Producer(ins.dst)>>
      [] OTHER -> <<>>

RECURSIVE AnalyzerNew(_)
AnalyzerNew(code) ==
    IF code = <<>> THEN <<>>
    ELSE EventsOf(code[1]) \o AnalyzerNew(Tail(code))

\* the operators reached through the function table
caller == {"rem", "power", "sin", "cos", "tan", "csc", "sec", "cot", "arcsin",
           "arccos", "arctan", "exp", "ln", "log", "root"}

Contains(seq, w) == \E i \in 1..Len(seq) : seq[i] = w
Front(seq) == SubSeq(seq, 1, Len(seq) - 1)

\* Consumer(c) without the pop: the newest candidate is looked at too
ConsumedAny(candidates, c) == Contains(candidates, c)

\* Consumer(c): pop the last candidate, look for c among the rest, push it back
Consumed(candidates, c) == candidates # <<>> /\ Contains(Front(candidates), c)

RECURSIVE SaveableFrom(_, _, _)
SaveableFrom(events, candidates, saveable) ==
    IF events = <<>> THEN saveable
    ELSE LET l == events[1]
         IN  CASE l.e = "Producer" ->
                    SaveableFrom(Tail(events), Append(candidates, l.w), saveable)
               [] l.e = "Consumer" ->
                    SaveableFrom(Tail(events), candidates,
                        IF Consumed(candidates, l.w) THEN saveable \cup {l.w}
                                                     ELSE saveable)
               [] OTHER -> SaveableFrom(Tail(events), candidates, saveable)

find_saveable(events) == SaveableFrom(events, <<>>, {})

RECURSIVE BufferableFrom(_, _, _)
BufferableFrom(events, candidates, bufferable) ==
    IF events = <<>> THEN bufferable
    ELSE LET l == events[1]
         IN  CASE l.e = "Producer" ->
                    BufferableFrom(Tail(events), Append(candidates, l.w), bufferable)
               [] l.e = "Consumer" ->
                    BufferableFrom(Tail(events), candidates,
                        IF Consumed(candidates, l.w) THEN bufferable \cup {l.w}
                                                     ELSE bufferable)
               [] OTHER ->
                    BufferableFrom(Tail(events),
                        IF l.op \in caller THEN <<>> ELSE candidates, bufferable)

\* find_bufferable without the clearing of the candidates at a call, and
\* with the newest candidate counted
BufferableKeepTop(events) ==
    LET RECURSIVE Go(_, _, _)
        Go(ev, cand, buf) ==
            IF ev = <<>> THEN buf
            ELSE LET l == ev[1]
                 IN  CASE l.e = "Producer" -> Go(Tail(ev), Append(cand, l.w), buf)
                       [] l.e = "Consumer" ->
                            Go(Tail(ev), cand,
                               IF Contains(cand, l.w) THEN buf \cup {l.w} ELSE buf)
                       [] OTHER -> Go(Tail(ev), cand, buf)
    IN  Go(events, <<>>, {})

find_bufferable(events) == BufferableFrom(events, <<>>, {})

\* alloc_regs: the depth given to each consumed temporary; trace keeps, for
\* every Consumer of a temporary, the live list it met
RECURSIVE AllocRegsFrom(_, _, _, _)
AllocRegsFrom(f, events, lives, acc) ==
    IF events = <<>> \/ acc.pan # "" THEN acc
    ELSE LET l == events[1]
         IN  CASE l.e = "Producer" ->
                    AllocRegsFrom(f, Tail(events),
                        IF is_temp(f, l.w) THEN Append(lives, l.w) ELSE lives, acc)
               [] l.e = "Consumer" ->
                    IF ~is_temp(f, l.w) THEN AllocRegsFrom(f, Tail(events), lives, acc)
                    ELSE IF lives = <<>>
                    THEN AllocRegsFrom(f, Tail(events), lives,
                            [acc EXCEPT !.trace = Append(@, [w |-> l.w, top |-> NoWord])])
                    ELSE IF lives[Len(lives)] # l.w
                    THEN [acc EXCEPT !.pan = "temps out of stack order",
                                     !.trace = Append(@, [w |-> l.w, top |-> lives[Len(lives)]])]
                    ELSE AllocRegsFrom(f, Tail(events), Front(lives),
                            [acc EXCEPT !.allocs = {a \in @ : a[1] # l.w}
                                                        \cup {<<l.w, Len(lives) - 1>>},
                                        !.trace = Append(@, [w |-> l.w, top |-> l.w])])
               [] OTHER ->
                    AllocRegsFrom(f, Tail(events),
                        IF l.op \in caller THEN <<>> ELSE lives, acc)

alloc_regs(f, events) ==
    AllocRegsFrom(f, events, <<>>, [allocs |-> {}, pan |-> "", trace |-> <<>>])

(***************************************************************************)
(* SpecAnalyzer: Analyzer::new, find_saveable and find_bufferable on any   *)
(* instruction list.                                                       *)
(***************************************************************************)
MaxCode == 3        \* instructions in the list

AWords == {Word(8, 0), Word(9, 0)}
AnyInstr ==
    {Unary("sin", x, dst, 0) : x \in AWords, dst \in AWords}
    \cup {Binary("plus", e[1], e[2], e[3], 1) : e \in AWords \X AWords \X AWords}
    \cup {IfElse(e[1], e[2], e[3], e[4]) : e \in AWords \X AWords \X AWords \X AWords}
    \cup {Num(F(2), Word(8, 0)), VarMark("x", Word(8, 0)), Eq(Word(8, 0)), Nop}

InitAnalyzer ==
    /\ acode = <<>>
    /\ mach = <<>> /\ outcome = <<>>
    /\ frame = <<>> /\ last = <<>> /\ failed = ""
    /\ prog = <<>> /\ cnt = <<>> /\ step = <<>> /\ phase = "analyzer"

PushInstr ==
    \E ins \in AnyInstr :
        /\ Len(acode) < MaxCode
        /\ acode' = Append(acode, ins)
        /\ UNCHANGED <<frameVars, lowerVars, runVars>>

NextAnalyzer == PushInstr

SpecAnalyzer == InitAnalyzer /\ [][NextAnalyzer]_vars

\* C2: for the event stream of any instruction list, find_saveable returns a
\* superset of what find_bufferable returns.
C2_SaveableSuperset ==
    find_bufferable(AnalyzerNew(acode)) \subseteq find_saveable(AnalyzerNew(acode))

\* a list with a bufferable word (produced, then something else is produced,
\* then it is consumed, and no call in between)
C2_Witness ==
    /\ Len(acode) = 3
    /\ find_bufferable(AnalyzerNew(acode)) # {}

\* C21: Analyzer::new emits, for each Unary, Binary and IfElse instruction
\* in program order, a Consumer event for every input, then one Caller
\* event, then one Producer(dst) event, and nothing for Num, Var, Eq and
\* Nop; for an IfElse the Caller is "select" and the Consumers are cond, x2,
\* x1 in that order.
C21_Events ==
    LET ev == AnalyzerNew(acode)
        n == Len(acode)
        count(ins) == CASE ins.k = "Unary" -> 3 [] ins.k = "Binary" -> 4
                        [] ins.k = "IfElse" -> 5 [] OTHER -> 0
        off[i \in 0..n] == IF i = 0 THEN 0 ELSE off[i - 1] + count(acode[i])
    IN  /\ Len(ev) = off[n]
        /\ \A i \in 1..n :
              LET ins == acode[i]
                  o == off[i - 1]
              IN  CASE ins.k = "Unary" ->
                         /\ ev[o + 1] = Consumer(ins.x)
                         /\ ev[o + 2] = Caller(ins.op)
                         /\ ev[o + 3] = Producer(ins.dst)
                    [] ins.k = "Binary" ->
                         /\ {ev[o + 1], ev[o + 2]} = {Consumer(ins.x), Consumer(ins.y)}
                         /\ ev[o + 3] = Caller(ins.op)
                         /\ ev[o + 4] = Producer(ins.dst)
                    [] ins.k = "IfElse" ->
                         /\ ev[o + 1] = Consumer(ins.c)
                         /\ ev[o + 2] = Consumer(ins.y)
                         /\ ev[o + 3] = Consumer(ins.x)
                         /\ ev[o + 4] = Caller("select")
                         /\ ev[o + 5] = Producer(ins.dst)
                    [] OTHER -> TRUE

\* an IfElse with different branches between a Var and a Binary
C21_Witness ==
    /\ Len(acode) = 3
    /\ acode[1].k = "Var"
    /\ acode[2].k = "IfElse" /\ acode[2].x # acode[2].y /\ acode[2].c = acode[2].x
    /\ acode[3].k = "Binary" /\ acode[3].x # acode[3].y

MaxLong == 4        \* instructions in the list

CallInstr ==
    {Unary("sin", x, dst, 0) : x \in AWords, dst \in AWords}
    \cup {Binary("plus", x, x, dst, 1) : x \in AWords, dst \in AWords}

InitCalls ==
    /\ acode = <<>>
    /\ mach = <<>> /\ outcome = <<>>
    /\ frame = <<>> /\ last = <<>> /\ failed = ""
    /\ prog = <<>> /\ cnt = <<>> /\ step = <<>> /\ phase = "calls"

PushCall ==
    \E ins \in CallInstr :
        /\ phase = "calls"
        /\ Len(acode) < MaxLong
        /\ acode' = Append(acode, ins)
        /\ UNCHANGED <<frameVars, lowerVars, runVars>>

NextCalls == PushCall

SpecCalls == InitCalls /\ [][NextCalls]_vars

\* C23: for every word w that find_bufferable returns (and that is produced
\* once), no Caller event of a host-called operator lies between
\* Producer(w) and the last Consumer(w).
C23_NoCallInRange ==
    \A ev \in {AnalyzerNew(acode)} :
      \A w \in find_bufferable(ev) :
        \A i \in 1..Len(ev), j \in 1..Len(ev) :
            (/\ ev[i] = Producer(w)
             /\ \A m \in 1..Len(ev) : ev[m] = Producer(w) => m = i
             /\ ev[j] = Consumer(w)
             /\ \A m \in (j + 1)..Len(ev) : ev[m] # Consumer(w))
            => \A k \in (i + 1)..(j - 1) : ~(ev[k].e = "Caller" /\ ev[k].op \in caller)

(***************************************************************************)
(* analyzer.rs: Renamer and Stack, kept in the state of the AmdCompiler    *)
(* (machine_code, buf, stack, renamer).  mc holds the instructions emitted *)
(* so far, each with the register numbers and offsets it was encoded with. *)
(***************************************************************************)
Ins(i, a, b, k) == [i |-> i, a |-> a, b |-> b, k |-> k]

RenamerNew(cnt8) == [i \in 1..cnt8 |-> i - 1]

AmdCompilerNew ==
    [mc |-> <<>>, buf |-> <<NoWord, NoWord, NoWord, NoWord>>,
     stack |-> <<>>, cap |-> 0, mapping |-> RenamerNew(8), r |-> ZERO, pan |-> ""]

reset(cs) == [cs EXCEPT !.mapping = [i \in 1..Len(cs.mapping) |-> i - 1]]
get(cs, i) == cs.mapping[i + 1]

\* Renamer::swap: mapping[j] = t is commented out
swap(cs, i, j) == [cs EXCEPT !.mapping[i + 1] = cs.mapping[j + 1]]

\* Stack::push that leaves cap as it is
StackPushNoCap(cs, w) == [cs EXCEPT !.stack = Append(cs.stack, w)]

\* Stack::push; the index returned is Len(stack) - 1 of the result
StackPush(cs, w) ==
    [cs EXCEPT !.stack = Append(cs.stack, w),
               !.cap = IF Len(cs.stack) + 1 > cs.cap THEN Len(cs.stack) + 1 ELSE cs.cap]

\* Stack::pop that leaves the word on the stack
StackPopKeep(cs, w) ==
    IF cs.stack = <<>>
    THEN [cs EXCEPT !.pan = IF @ # "" THEN @ ELSE "stack is empty"]
    ELSE [cs EXCEPT !.pan = IF @ # "" THEN @
                            ELSE IF cs.stack[Len(cs.stack)] # w
                                 THEN "assertion failed: *w == p" ELSE ""]

\* Stack::pop; the index returned is Len(stack) of the result
StackPop(cs, w) ==
    IF cs.stack = <<>>
    THEN [cs EXCEPT !.pan = IF @ # "" THEN @ ELSE "stack is empty"]
    ELSE [cs EXCEPT !.stack = Front(cs.stack),
                    !.pan = IF @ # "" THEN @
                            ELSE IF cs.stack[Len(cs.stack)] # w
                                 THEN "assertion failed: *w == p" ELSE ""]

capacity(cs) == cs.cap


(***************************************************************************)
(* amd/mod.rs: AmdCompiler                                                 *)
(***************************************************************************)
XMM0 == 0
XMM1 == 1
XMM2 == 2

push_vec(cs, ins) == [cs EXCEPT !.mc = Append(cs.mc, ins)]

\* the mnemonic of the operators that op_code turns into one instruction
Mnemonic(op) ==
    CASE op = "plus" -> "addsd"   [] op = "minus" -> "subsd"
      [] op = "times" -> "mulsd"  [] op = "divide" -> "divsd"
      [] op = "gt" -> "cmpnlesd"  [] op = "geq" -> "cmpnltsd"
      [] op = "lt" -> "cmpltsd"   [] op = "leq" -> "cmplesd"
      [] op = "eq" -> "cmpeqsd"   [] op = "neq" -> "cmpneqsd"
      [] op = "and" -> "andpd"    [] op = "or" -> "orpd"
      [] op = "xor" -> "xorpd"    [] OTHER -> ""

\* an instruction on the registers that x and y are renamed to
Emit(cs, i, x, y, k) == push_vec(cs, Ins(i, get(cs, x), get(cs, y), k))

op_code(cs, op, p) ==
    IF op = "mov" THEN cs
    ELSE IF Mnemonic(op) # "" THEN Emit(cs, Mnemonic(op), 0, 1, 0)
    ELSE IF op = "neg"
    THEN Emit(push_vec(cs, Ins("load_rbp", get(cs, 1), 0, MINUS_ZERO[1])),
              "xorpd", 0, 1, 0)
    ELSE push_vec(
            push_vec(reset(IF get(cs, 0) # 0
                           THEN push_vec(cs, Ins("movapd", 0, get(cs, 0), 0)) ELSE cs),
                     Ins("mov_rax_rbx", 0, 0, p)),
            Ins("call_rax", 0, 0, 0))

\* xmm(n(2)) == true ? xmm(n(0)) : xmm(n(1))
ifelse(cs) ==
    LET c1 == push_vec(cs, Ins("movapd", get(cs, 3), get(cs, 2), 0))
        c2 == push_vec(c1, Ins("andpd", get(cs, 0), get(cs, 2), 0))
        c3 == push_vec(c2, Ins("andnpd", get(cs, 3), get(cs, 1), 0))
    IN  push_vec(c3, Ins("orpd", get(cs, 0), get(cs, 3), 0))

load_xmm_indirect(cs, f, x, r) ==
    IF r = ZERO THEN Emit(cs, "xorpd", x, x, 0)
    ELSE IF is_temp(f, r)        \* k = stack.pop(&r): the length after the pop
    THEN push_vec(StackPop(cs, r), Ins("load_rsp", get(cs, x), 0, Len(cs.stack) - 1))
    ELSE push_vec(cs, Ins("load_rbp", get(cs, x), 0, r[1]))

save_xmm_indirect(cs, f, x, r) ==
    IF is_temp(f, r)             \* k = stack.push(&r): the length before the push
    THEN push_vec(StackPush(cs, r), Ins("store_rsp", get(cs, x), 0, Len(cs.stack)))
    ELSE push_vec(cs, Ins("store_rbp", get(cs, x), 0, r[1]))

load_buffered(cs, f, x, r) ==
    LET hit == {k \in 0..3 : cs.buf[k + 1] = r}
    IN  IF hit # {}
        THEN LET k == CHOOSE k \in hit : \A j \in hit : k <= j
             IN  [swap(cs, x, 4 + k) EXCEPT !.buf[k + 1] = NoWord]
        ELSE load_xmm_indirect(cs, f, x, r)

save_buffered(cs, f, x, r) ==
    LET none == {k \in 0..3 : cs.buf[k + 1] = NoWord}
    IN  IF none # {}
        THEN LET k == CHOOSE k \in none : \A j \in none : k <= j
             IN  [swap(cs, 4 + k, x) EXCEPT !.buf[k + 1] = r]
        ELSE save_xmm_indirect(cs, f, x, r)

prologue(cs, nn) ==
    LET c1 == push_vec(cs, Ins("push_rbp", 0, 0, 0))
        c2 == push_vec(c1, Ins("push_rbx", 0, 0, 0))
        c3 == push_vec(c2, Ins("mov_rbp_rdi", 0, 0, 0))
        c4 == push_vec(c3, Ins("mov_rbx_rdx", 0, 0, 0))
    IN  push_vec(c4, Ins("sub_rsp", 0, 0, nn))

epilogue(cs, nn) ==
    LET c1 == push_vec(cs, Ins("add_rsp", 0, 0, nn))
        c2 == push_vec(c1, Ins("pop_rbx", 0, 0, 0))
        c3 == push_vec(c2, Ins("pop_rbp", 0, 0, 0))
    IN  push_vec(c3, Ins("ret", 0, 0, 0))

\* the operands of an instruction go to xmm(n(2)), xmm(n(1)), xmm(n(0)); r is
\* the word in the accumulator
Load(cs, f, xmm, w) ==
    IF w # cs.r THEN load_buffered(cs, f, xmm, w)
    ELSE IF xmm = XMM0 THEN cs ELSE swap(cs, xmm, XMM0)

\* the loads of the match arm of an instruction, up to the call of op_code
\* or ifelse
Operands(cs, f, c) ==
    CASE c.k = "Unary" -> Load(cs, f, XMM0, c.x)
      [] c.k = "Binary" ->
            IF c.op \in {"plus", "times"} /\ c.y = cs.r
            THEN Load(Load(cs, f, XMM1, c.x), f, XMM0, c.y)
            ELSE Load(Load(cs, f, XMM1, c.y), f, XMM0, c.x)
      [] OTHER -> Load(Load(Load(cs, f, XMM2, c.c), f, XMM1, c.y), f, XMM0, c.x)

\* the match arm of an instruction
Operate(cs, f, c) ==
    IF c.k \in {"Unary", "Binary"} THEN op_code(Operands(cs, f, c), c.op, c.p)
    ELSE ifelse(Operands(cs, f, c))

\* the three checks without r = Frame::ZERO after a save
SaveKeepR(cs, f, how, words) ==
    IF how = "diff" /\ is_diff(f, cs.r) THEN save_xmm_indirect(cs, f, XMM0, cs.r)
    ELSE IF how = "bufferable" /\ cs.r \in words THEN save_buffered(cs, f, XMM0, cs.r)
    ELSE IF how = "saveable" /\ cs.r \in words THEN save_xmm_indirect(cs, f, XMM0, cs.r)
    ELSE cs

\* what follows the match, one `if` at a time: a Diff is saved, a bufferable
\* word is parked in a hold register, a saveable word is saved
Save(cs, f, how, words) ==
    IF how = "diff" /\ is_diff(f, cs.r)
    THEN [save_xmm_indirect(cs, f, XMM0, cs.r) EXCEPT !.r = ZERO]
    ELSE IF how = "bufferable" /\ cs.r \in words
    THEN [save_buffered(cs, f, XMM0, cs.r) EXCEPT !.r = ZERO]
    ELSE IF how = "saveable" /\ cs.r \in words
    THEN [save_xmm_indirect(cs, f, XMM0, cs.r) EXCEPT !.r = ZERO]
    ELSE cs

\* the body of the loop of codegen for one instruction
CodegenInstr(cs, f, c, saveable, bufferable) ==
    IF c.k \notin {"Unary", "Binary", "IfElse"} THEN cs
    ELSE Save(Save(Save([Operate(cs, f, c) EXCEPT !.r = c.dst], f, "diff", {}),
                   f, "bufferable", bufferable),
              f, "saveable", saveable)

RECURSIVE CodegenFrom(_, _, _, _, _)
CodegenFrom(cs, f, code, saveable, bufferable) ==
    IF code = <<>> \/ cs.pan # "" THEN cs
    ELSE CodegenFrom(CodegenInstr(cs, f, code[1], saveable, bufferable),
                     f, Tail(code), saveable, bufferable)

codegen(cs, pr, saveable, bufferable) ==
    CodegenFrom([cs EXCEPT !.r = ZERO], pr.frame, pr.code, saveable, bufferable)

PrologueLen == 5

\* what compile leaves: the machine code, and the body each pass emitted
Compiled(c1, c3) ==
    [code |-> epilogue(c3, 8 * capacity(c1)).mc, pass1 |-> c1.mc,
     pass2 |-> SubSeq(c3.mc, PrologueLen + 1, Len(c3.mc)),
     pan |-> c3.pan]

\* machine_code.clear(), prologue, and the second pass on the state of the first
TwoPasses(c1, pr, saveable, bufferable) ==
    Compiled(c1, codegen(prologue([c1 EXCEPT !.mc = <<>>], 8 * capacity(c1)),
                         pr, saveable, bufferable))

Analyzed(pr, events) ==
    TwoPasses(codegen(AmdCompilerNew, pr, find_saveable(events), find_bufferable(events)),
              pr, find_saveable(events), find_bufferable(events))

\* AmdCompiler::compile
compile(pr) == Analyzed(pr, AnalyzerNew(pr.code))

(***************************************************************************)
(* code.rs: the functions of the virtual table, on <<sign, magnitude>>.    *)
(* The value of sin, and the bit patterns of the logical instructions that *)
(* are no number of the model, are kept as magnitudes of their own.        *)
(***************************************************************************)
SinMag == 1000
BitMag == 5000
AllBits == 9999         \* the magnitude bits of the all-ones mask
MaxMag == 1000000000    \* a magnitude beyond it is kept as MaxMag, as f64 keeps infinity

neg(x) == <<1 - x[1], x[2]>>
plus(x, y) ==
    LET s == ToInt(x) + ToInt(y)
    IN  IF s > MaxMag THEN F(MaxMag) ELSE IF s < -MaxMag THEN F(-MaxMag)
        ELSE IF s # 0 THEN F(s)
        ELSE IF x = NegZero /\ y = NegZero THEN NegZero ELSE F(0)
minus(x, y) == plus(x, neg(y))
times(x, y) ==
    <<(x[1] + y[1]) % 2,
      IF x[2] # 0 /\ y[2] > MaxMag \div x[2] THEN MaxMag ELSE x[2] * y[2]>>
sin(x) == IF x[2] = 0 THEN x ELSE <<x[1], SinMag + x[2]>>
if_pos(x, y) == IF ToInt(x) > 0 THEN y ELSE F(0)
if_neg(x, y) == IF ToInt(x) < 0 THEN y ELSE F(0)

\* vt[p](x, y)
Call(f, x, y) ==
    CASE f = "mov" -> x
      [] f = "plus" -> plus(x, y)
      [] f = "minus" -> minus(x, y)
      [] f = "times" -> times(x, y)
      [] f = "neg" -> neg(x)
      [] f = "sin" -> sin(x)
      [] f = "if_pos" -> if_pos(x, y)
      [] f = "if_neg" -> if_neg(x, y)
      [] OTHER -> F(0)

(***************************************************************************)
(* The machine the AmdCompiler emits for: eight xmm registers, the frame   *)
(* behind rbp, the scratch area behind rsp and the virtual table behind    *)
(* rbx.  env.junk is what a register or a scratch slot holds before the    *)
(* code writes it; env.clobber tells whether a called function leaves junk *)
(* in the registers it does not return in (they are caller-saved).         *)
(***************************************************************************)
\* the magnitude bits of a logical instruction
Bits(i, a, b) ==
    CASE i = "xorpd" -> IF a = b THEN 0 ELSE IF a = 0 THEN b ELSE IF b = 0 THEN a
                        ELSE BitMag + a + b
      [] i = "andpd" -> IF a = b THEN a ELSE IF a = AllBits THEN b
                        ELSE IF b = AllBits THEN a
                        ELSE IF a = 0 \/ b = 0 THEN 0 ELSE BitMag + a + b
      [] i = "orpd" -> IF a = b THEN a ELSE IF a = 0 THEN b ELSE IF b = 0 THEN a
                       ELSE IF a = AllBits \/ b = AllBits THEN AllBits
                       ELSE BitMag + a + b
      [] OTHER -> IF a = AllBits \/ a = b THEN 0 ELSE IF a = 0 THEN b
                  ELSE BitMag + a + b

\* what a comparison leaves: all ones or all zeros
Mask(b) == IF b THEN <<1, AllBits>> ELSE F(0)

\* the value the first operand holds after a two-register instruction
Alu(i, x, y) ==
    CASE i = "addsd" -> plus(x, y)
      [] i = "subsd" -> minus(x, y)
      [] i = "mulsd" -> times(x, y)
      [] i = "movapd" -> y
      [] i = "xorpd" -> <<(x[1] + y[1]) % 2, Bits(i, x[2], y[2])>>
      [] i = "andpd" -> <<x[1] * y[1], Bits(i, x[2], y[2])>>
      [] i = "orpd" -> <<IF x[1] + y[1] > 0 THEN 1 ELSE 0, Bits(i, x[2], y[2])>>
      [] i = "andnpd" -> <<(1 - x[1]) * y[1], Bits(i, x[2], y[2])>>
      [] i = "cmpltsd" -> Mask(ToInt(x) < ToInt(y))
      [] i = "cmplesd" -> Mask(ToInt(x) <= ToInt(y))
      [] i = "cmpnlesd" -> Mask(~(ToInt(x) <= ToInt(y)))
      [] i = "cmpnltsd" -> Mask(~(ToInt(x) < ToInt(y)))
      [] i = "cmpeqsd" -> Mask(ToInt(x) = ToInt(y))
      [] i = "cmpneqsd" -> Mask(ToInt(x) # ToInt(y))
      [] OTHER -> x

Exec(ms, ins, vt, env) ==
    CASE ins.i = "load_rbp" -> [ms EXCEPT !.xmm[ins.a + 1] = ms.mem[ins.k + 1]]
      [] ins.i = "store_rbp" -> [ms EXCEPT !.mem[ins.k + 1] = ms.xmm[ins.a + 1]]
      [] ins.i = "load_rsp" ->
            [ms EXCEPT !.xmm[ins.a + 1] =
                IF ins.k < Len(ms.stk) THEN ms.stk[ins.k + 1] ELSE env.junk]
      [] ins.i = "store_rsp" ->
            IF ins.k < Len(ms.stk)
            THEN [ms EXCEPT !.stk[ins.k + 1] = ms.xmm[ins.a + 1]]
            ELSE [ms EXCEPT !.smashed = TRUE]
      [] ins.i = "mov_rax_rbx" -> [ms EXCEPT !.rax = ins.k]
      [] ins.i = "call_rax" ->
            [ms EXCEPT !.xmm = [i \in 1..8 |->
                IF i = 1 THEN Call(vt[ms.rax + 1], ms.xmm[1], ms.xmm[2])
                ELSE IF env.clobber THEN env.junk ELSE ms.xmm[i]]]
      [] ins.i = "sub_rsp" -> [ms EXCEPT !.stk = [i \in 1..(ins.k \div 8) |-> env.junk]]
      [] ins.i \in {"push_rbp", "push_rbx", "mov_rbp_rdi", "mov_rbx_rdx",
                    "add_rsp", "pop_rbx", "pop_rbp", "ret"} -> ms
      [] OTHER -> [ms EXCEPT !.xmm[ins.a + 1] =
                        Alu(ins.i, ms.xmm[ins.a + 1], ms.xmm[ins.b + 1])]

RECURSIVE ExecFrom(_, _, _, _)
ExecFrom(ms, mc, vt, env) ==
    IF mc = <<>> THEN ms ELSE ExecFrom(Exec(ms, mc[1], vt, env), Tail(mc), vt, env)

\* Program::virtual_table
virtual_table(pr) == pr.vt

\* MachineCode::run: the memory after the code has run
MachineRun(mc, vt, mem, env) ==
    ExecFrom([xmm |-> [i \in 1..8 |-> env.junk], mem |-> mem, stk |-> <<>>,
              rax |-> 0, smashed |-> FALSE], mc, vt, env).mem

(***************************************************************************)
(* interpreter/mod.rs: Interpreter and ByteCode                            *)
(***************************************************************************)
\* Frame::mem
FrameMem(f) == [i \in 1..Len(f.words) |->
                    IF f.words[i].t \in {"Const", "State", "Param"} THEN f.words[i].v
                    ELSE F(0)]

\* Frame::stack_size: scratch slots enough for the index of every temporary
stack_size(f) == Len(f.words)

\* the index h gives to a word: temporaries live behind the frame
FastIndex(f, x) == IF is_temp(f, x) THEN Len(f.words) + x[1] ELSE x[1]

\* one iteration of ByteCode::run
FastStep(f, vt, m, c) ==
    LET x == m[FastIndex(f, c.x) + 1]
        y == m[FastIndex(f, c.y) + 1]
        d == FastIndex(f, c.dst) + 1
    IN  CASE c.k = "Unary" -> [m EXCEPT ![d] = Call(vt[c.p + 1], x, F(0))]
          [] c.k = "Binary" -> [m EXCEPT ![d] = Call(vt[c.p + 1], x, y)]
          [] c.k = "IfElse" ->
                [m EXCEPT ![d] = IF ToInt(m[FastIndex(f, c.c) + 1]) > 0 THEN x ELSE y]
          [] OTHER -> m

RECURSIVE ByteCodeFrom(_, _, _, _)
ByteCodeFrom(f, vt, m, code) ==
    IF code = <<>> THEN m ELSE ByteCodeFrom(f, vt, FastStep(f, vt, m, code[1]), Tail(code))

\* ByteCode::run on the image of Interpreter::compile: the memory with
\* stack_size scratch slots behind it
ByteCodeRun(pr, mem) ==
    ByteCodeFrom(pr.frame, virtual_table(pr),
                 mem \o [i \in 1..stack_size(pr.frame) |-> F(0)], pr.code)

(***************************************************************************)
(* SpecLower: CellModel::lower on a model with one state x and one         *)
(* parameter p.  Each action is one lower() call at the point where its    *)
(* arguments have been lowered; the observables are lowered before the     *)
(* differential equations.                                                 *)
(***************************************************************************)
MaxNodes == 5       \* Expr nodes (Const, Var, Tree) in the model's equations

TheModel == [iv |-> "t",
             states |-> <<[name |-> "x", val |-> F(2)]>>,
             params |-> <<[name |-> "p", val |-> F(3)]>>]

ConstVals == {F(0), F(2)}
VarNames  == {"x", "p", "o1"}
UnaryOps  == {"minus", "sin"}
BinaryOps == {"minus", "times"}
PolyOps   == {"plus"}

NoStep == [a |-> "new", v |-> F(0), s |-> "", ret |-> NoWord]
Ret(pr) == pr.open[Len(pr.open)].w

\* the k last returned registers are whole expressions (not a fold under way)
Whole(pr, k) ==
    /\ Len(pr.open) >= k
    /\ \A i \in 0..(k - 1) : pr.open[Len(pr.open) - i].poly # 2

\* lowering goes on: no panic, and the equation of the one state x is still
\* to come (it is the last one lowered)
Lowering == phase = "lower" /\ prog.pan = "" /\ ~cnt.ode

InitLower ==
    /\ prog = ProgramNew(TheModel)
    /\ cnt = [node |-> 0, eq |-> 0, ode |-> FALSE]
    /\ step = NoStep
    /\ phase = "lower"
    /\ frame = <<>> /\ last = <<>> /\ failed = ""
    /\ acode = <<>>
    /\ mach = <<>> /\ outcome = <<>>

LowerConstOf(val) ==
    /\ Lowering
    /\ cnt.node < MaxNodes
    /\ prog' = lower_const(prog, val)
    /\ cnt' = [cnt EXCEPT !.node = @ + 1]
    /\ step' = [a |-> "const", v |-> val, s |-> "", ret |-> Ret(prog')]
    /\ UNCHANGED <<phase, frameVars, acode, runVars>>

LowerConst == \E val \in ConstVals : LowerConstOf(val)

LowerVar ==
    \E name \in VarNames :
        /\ Lowering
        /\ cnt.node < MaxNodes
        /\ prog' = lower_var(prog, name)
        /\ cnt' = [cnt EXCEPT !.node = @ + 1]
        /\ step' = [a |-> "var", v |-> F(0), s |-> name,
                    ret |-> IF prog'.pan = "" THEN Ret(prog') ELSE NoWord]
        /\ UNCHANGED <<phase, frameVars, acode, runVars>>

LowerUnary ==
    \E op \in UnaryOps :
        /\ Lowering
        /\ cnt.node < MaxNodes
        /\ Whole(prog, 1)
        /\ prog' = lower_unary(prog, op)
        /\ cnt' = [cnt EXCEPT !.node = @ + 1]
        /\ step' = [a |-> "unary", v |-> F(0), s |-> op, ret |-> Ret(prog')]
        /\ UNCHANGED <<phase, frameVars, acode, runVars>>

LowerBinary ==
    \E op \in BinaryOps :
        /\ Lowering
        /\ cnt.node < MaxNodes
        /\ Whole(prog, 2)
        /\ prog' = lower_binary(prog, op)
        /\ cnt' = [cnt EXCEPT !.node = @ + 1]
        /\ step' = [a |-> "binary", v |-> F(0), s |-> op, ret |-> Ret(prog')]
        /\ UNCHANGED <<phase, frameVars, acode, runVars>>

LowerTernary ==
    /\ Lowering
    /\ cnt.node < MaxNodes
    /\ Whole(prog, 3)
    /\ prog' = lower_ternary(prog)
    /\ cnt' = [cnt EXCEPT !.node = @ + 1]
    /\ step' = [a |-> "ternary", v |-> F(0), s |-> "ifelse", ret |-> Ret(prog')]
    /\ UNCHANGED <<phase, frameVars, acode, runVars>>

\* a tree of three or more arguments that is not ifelse: the fold starts on
\* the first two arguments and goes on one argument at a time
LowerPoly ==
    \E op \in PolyOps :
        /\ Lowering
        /\ Whole(prog, 1)
        /\ Len(prog.open) >= 2
        /\ LET xe == prog.open[Len(prog.open) - 1]
               goes_on == xe.poly # 0 /\ xe.op = op
           IN  /\ goes_on \/ (xe.poly # 2 /\ cnt.node < MaxNodes)
               /\ cnt' = [cnt EXCEPT !.node = IF goes_on THEN @ ELSE @ + 1]
        /\ prog' = lower_poly_step(prog, op)
        /\ step' = [a |-> "poly", v |-> F(0), s |-> op, ret |-> Ret(prog')]
        /\ UNCHANGED <<phase, frameVars, acode, runVars>>

LowerEquation ==
    \E diff \in BOOLEAN :
        \E name \in (IF diff THEN {TheModel.states[i].name : i \in 1..Len(TheModel.states)}
                             ELSE {"o1"}) :
            /\ Lowering
            /\ Len(prog.open) = 1 /\ Whole(prog, 1)
            /\ prog' = lower_equation(prog, diff, name)
            /\ cnt' = [cnt EXCEPT !.eq = @ + 1, !.ode = diff]
            /\ step' = [a |-> "equation", v |-> F(0), s |-> name, ret |-> Word(0, 0)]
            /\ UNCHANGED <<phase, frameVars, acode, runVars>>

\* the model has been lowered: every equation is in the code
Lowered == prog.pan = "" /\ prog.open = <<>> /\ cnt.ode

\* Runnable::new: the program goes to the compiler
Compile ==
    /\ phase = "lower" /\ Lowered
    /\ mach' = compile(prog)
    /\ phase' = "compiled"
    /\ UNCHANGED <<prog, cnt, step, frameVars, acode, outcome>>

InVals == {F(2), F(-3)}
Envs == [junk : {F(0), F(5)}, clobber : BOOLEAN]

\* the memory image with the inputs in: t in the Var slot, u in the State
\* slot, p in the Param slot
WithInputs(f, t, u, p) ==
    [i \in 1..Len(f.words) |->
        CASE f.words[i].t = "Var" -> t
          [] f.words[i].t = "State" -> u
          [] f.words[i].t = "Param" -> p
          [] OTHER -> FrameMem(f)[i]]

\* one run of the machine code and one of the bytecode on the same inputs
Run ==
    \E u \in InVals, env \in Envs :
        /\ phase = "compiled" /\ mach.pan = ""
        /\ LET mem == WithInputs(prog.frame, F(1), u, F(3))
           IN  outcome' = [u |-> u, env |-> env,
                           native |-> MachineRun(mach.code, virtual_table(prog), mem, env),
                           interp |-> ByteCodeRun(prog, mem)]
        /\ phase' = "ran"
        /\ UNCHANGED <<prog, cnt, step, frameVars, acode, mach>>

NextLower ==
    \/ LowerConst \/ LowerVar \/ LowerUnary \/ LowerBinary \/ LowerTernary
    \/ LowerPoly \/ LowerEquation \/ Compile \/ Run

SpecLower == InitLower /\ [][NextLower]_vars

\* the temporaries that the instructions of a program consume
ConsumedTemps(f, events) ==
    {events[i].w : i \in {j \in 1..Len(events) :
                            events[j].e = "Consumer" /\ is_temp(f, events[j].w)}}

\* C3: on every lowered program alloc_regs meets each consumed temporary on
\* top of the live list, so it does not panic with "temps out of stack
\* order" and every consumed temporary gets a depth.
C3_TempsLifo ==
    (phase = "lower" /\ Lowered) =>
        LET ev == AnalyzerNew(prog.code)
            r == alloc_regs(prog.frame, ev)
        IN  /\ r.pan = ""
            /\ \A i \in 1..Len(r.trace) : r.trace[i].top = r.trace[i].w
            /\ \A w \in ConsumedTemps(prog.frame, ev) : \E a \in r.allocs : a[1] = w

\* C1: on every lowered program and every input the machine code leaves in
\* the Diff and Obs slots the values the bytecode interpreter leaves there.
C1_NativeAsInterpreter ==
    phase = "ran" =>
        \A i \in 1..Len(prog.frame.words) :
            prog.frame.words[i].t \in {"Diff", "Obs"} =>
                F64Eq(outcome.native[i], outcome.interp[i])

\* C4: the two codegen passes of compile emit the same instructions, with
\* the same register numbers and offsets, for the body of the program.
C4_SamePasses ==
    phase = "compiled" => mach.pass1 = mach.pass2

(***************************************************************************)
(* SpecConst: the same lowering over trees whose leaves are constants of   *)
(* every kind (zero of both signs, one, minus one, others).                *)
(***************************************************************************)
AllConsts == {F(0), NegZero, F(1), F(-1), F(2), F(3)}

ConstLeaf == \E val \in AllConsts : LowerConstOf(val)

NextConst == ConstLeaf \/ LowerBinary \/ LowerTernary \/ LowerEquation

SpecConst == InitLower /\ [][NextConst]_vars

\* C5: lowering a Const of value 0, 1 or -1 returns ZERO, ONE or MINUS_ONE
\* and allocates no slot, wherever it stands in the tree; any other constant
\* allocates exactly one Const slot (and returns it).
C5_ConstBinding ==
    [][step'.a = "const" =>
          IF step'.v \in {F(0), NegZero, F(1), F(-1)}
          THEN /\ step'.ret = (CASE step'.v = F(1) -> ONE
                                 [] step'.v = F(-1) -> MINUS_ONE
                                 [] OTHER -> ZERO)
               /\ prog'.frame = prog.frame
          ELSE /\ prog'.frame.words = Append(prog.frame.words, Const(step'.v))
               /\ step'.ret = Word(Len(prog.frame.words), 0)
               /\ prog'.frame.freed = prog.frame.freed]_vars

\* the constant -1 met as a later argument, after an inner tree has emitted
\* code and allocated a Const slot and a temporary
C5_Witness ==
    /\ step.a = "const" /\ step.v = F(-1)
    /\ Len(prog.open) = 3
    /\ \E i \in 1..Len(prog.code) : prog.code[i].k = "Binary"
    /\ \E i \in 1..Len(prog.frame.words) : prog.frame.words[i] = Const(F(3))

(***************************************************************************)
(* runnable.rs: Runnable over the bytecode backend (CompilerType::ByteCode)*)
(***************************************************************************)
\* Frame::first_state, first_param: the index of the first slot of a kind, or
\* -1 for None
first(f, tag) ==
    LET at == {i \in 1..Len(f.words) : f.words[i].t = tag}
    IN  IF at = {} THEN -1 ELSE (CHOOSE i \in at : \A j \in at : i <= j) - 1

\* Frame::count_states, count_params, count_obs
count(f, tag) == Cardinality({i \in 1..Len(f.words) : f.words[i].t = tag})

first_obs(f) == first(f, "Obs")
first_diff(f) == first(f, "Diff")
count_diffs(f) == count(f, "Diff")

\* Runnable::new; runs counts the calls of compiled.run() that one call makes,
\* image is the memory that run was given, du the output slice
RunnableNew(pr) ==
    [pan |-> IF -1 \in {first(pr.frame, "State"), first(pr.frame, "Param"),
                        first_obs(pr.frame), first_diff(pr.frame)}
             THEN "called Option::unwrap() on a None value" ELSE "",
     mem |-> FrameMem(pr.frame) \o [i \in 1..stack_size(pr.frame) |-> F(0)],
     first_state |-> first(pr.frame, "State"),
     first_param |-> first(pr.frame, "Param"),
     first_obs |-> first_obs(pr.frame),
     first_diff |-> first_diff(pr.frame),
     count_states |-> count(pr.frame, "State"),
     count_params |-> count(pr.frame, "Param"),
     count_obs |-> count(pr.frame, "Obs"),
     count_diffs |-> count_diffs(pr.frame),
     runs |-> 0, image |-> <<>>, du |-> <<>>]

\* mem[from..from + n].copy_from_slice(src)
copy_from_slice(mem, from, n, src) ==
    [i \in 1..Len(mem) |-> IF from < i /\ i <= from + n THEN src[i - from] ELSE mem[i]]

\* compiled.run() on the memory with the inputs in, then
\* du.copy_from_slice(&mem[from..from + n])
RunAndCopy(rn, pr, image, from, n) ==
    LET mem == ByteCodeFrom(pr.frame, virtual_table(pr), image, pr.code)
    IN  [rn EXCEPT !.image = image, !.mem = mem, !.runs = 1,
                   !.du = SubSeq(mem, from + 1, from + n)]

\* Runnable::call with the parameters copied behind the states
call_params_behind_states(rn, pr, u, p, t) ==
    RunAndCopy(rn, pr,
        copy_from_slice(
            copy_from_slice([rn.mem EXCEPT ![rn.first_state] = t],
                            rn.first_state, rn.count_states, u),
            rn.first_state + rn.count_states, rn.count_params, p),
        rn.first_diff, rn.count_diffs)

\* Runnable::call
call(rn, pr, u, p, t) ==
    RunAndCopy(rn, pr,
        copy_from_slice(
            copy_from_slice([rn.mem EXCEPT ![rn.first_state] = t],
                            rn.first_state, rn.count_states, u),
            rn.first_param, rn.count_params, p),
        rn.first_diff, rn.count_diffs)

\* Runnable::call_py
call_py(rn, pr, u, t) ==
    RunAndCopy(rn, pr,
        copy_from_slice([rn.mem EXCEPT ![rn.first_state] = t],
                        rn.first_state, rn.count_states + rn.count_params, u),
        rn.first_obs, rn.count_obs)

\* lib.rs run with its early return made before du is touched replaced by a
\* du that is cleared first
run_clearing_du(q, pr, du, u, p, t) ==
    IF DOMAIN q = {} \/ q.count_states # Len(u) \/ q.count_params # Len(p)
    THEN [ret |-> FALSE, func |-> q, du |-> [i \in 1..Len(du) |-> F(0)]]
    ELSE [ret |-> TRUE, func |-> call(q, pr, u, p, t), du |-> call(q, pr, u, p, t).du]

\* lib.rs run(q, du, u, ns, p, np, t), ns and np being the lengths of u and p
\* and du a buffer of ns elements
run(q, pr, du, u, p, t) ==
    IF DOMAIN q = {} \/ q.count_states # Len(u) \/ q.count_params # Len(p)
    THEN [ret |-> FALSE, func |-> q, du |-> du]
    ELSE [ret |-> TRUE, func |-> call(q, pr, u, p, t), du |-> call(q, pr, u, p, t).du]

(***************************************************************************)
(* SpecRun: the models with up to MaxStates states, MaxParams parameters   *)
(* and MaxObs observables, lowered and wrapped in a Runnable, and then     *)
(* called through both interfaces with any inputs.                         *)
(***************************************************************************)
MaxStates == 2
MaxParams == 2
MaxObs == 2

Names ==
    [State |-> <<"x", "y", "z", "w">>,
     Param |-> <<"p", "q", "r", "s">>,
     Obs |-> <<"o1", "o2", "o3", "o4">>]

\* a CellModel: state i starts at i, parameter j is 10 + j
CellModel(ns, np) ==
    [iv |-> "t",
     states |-> [i \in 1..ns |-> [name |-> Names.State[i], val |-> F(i)]],
     params |-> [j \in 1..np |-> [name |-> Names.Param[j], val |-> F(10 + j)]]]

\* the equations: observable k is 2 * (a state) or the state itself, the
\* derivative of state i is (state i) * (first parameter) or the parameter
Equations(ns, nobs, tree) ==
    [k \in 1..nobs |-> [diff |-> FALSE, name |-> Names.Obs[k], tree |-> tree,
                        c |-> F(2), v |-> Names.State[((k - 1) % ns) + 1]]]
    \o [i \in 1..ns |-> [diff |-> TRUE, name |-> Names.State[i], tree |-> tree,
                         c |-> F(0), v |-> Names.Param[1]]]

\* Equation::lower on c * v, on name * v, or on v alone
LowerOne(pr, eq) ==
    lower_equation(
        IF ~eq.tree THEN lower_var(pr, eq.v)
        ELSE IF eq.diff THEN lower_binary(lower_var(lower_var(pr, eq.name), eq.v), "times")
        ELSE lower_binary(lower_var(lower_const(pr, eq.c), eq.v), "times"),
        eq.diff, eq.name)

\* the slices the callers pass: n different values from base on, or their
\* negatives
Slices(n, base) == {[i \in 1..n |-> F(sgn * (base + i))] : sgn \in {1, -1}}

InitRun ==
    \E ns \in 1..MaxStates, np \in 1..MaxParams, nobs \in 0..MaxObs, tree \in BOOLEAN :
        /\ prog = ProgramNew(CellModel(ns, np))
        /\ cnt = Equations(ns, nobs, tree)
        /\ mach = <<>>
        /\ outcome = [op |-> "", u |-> <<>>, p |-> <<>>, t |-> F(0)]
        /\ phase = "lower"
        /\ step = <<>>
        /\ frame = <<>> /\ last = <<>> /\ failed = ""
        /\ acode = <<>>

\* CellModel::lower: the observables, then the differential equations, one
\* equation a step
RunLower ==
    /\ phase = "lower" /\ cnt # <<>>
    /\ prog' = LowerOne(prog, Head(cnt))
    /\ cnt' = Tail(cnt)
    /\ UNCHANGED <<mach, outcome, step, phase, frameVars, acode>>

\* lib.rs compile: res.func is Some(Runnable::new(..)) for a known compiler
\* type and None, here <<>>, for any other
RunNew ==
    /\ phase = "lower" /\ cnt = <<>>
    /\ \E ty \in {"bytecode", "other"} :
          mach' = IF ty = "bytecode" THEN RunnableNew(prog) ELSE <<>>
    /\ outcome' = [outcome EXCEPT !.op = "new"]
    /\ phase' = "run"
    /\ UNCHANGED <<prog, cnt, step, frameVars, acode>>

RunnableCall ==
    /\ phase = "run" /\ DOMAIN mach # {} /\ mach.pan = ""
    /\ \E u \in Slices(mach.count_states, 1), p \in Slices(mach.count_params, 5) :
        /\ mach' = call(mach, prog, u, p, F(1))
        /\ outcome' = [op |-> "call", u |-> u, p |-> p, t |-> F(1)]
    /\ UNCHANGED <<prog, cnt, step, phase, frameVars, acode>>

RunnableCallPy ==
    /\ phase = "run" /\ DOMAIN mach # {} /\ mach.pan = ""
    /\ \E u \in Slices(mach.count_states + mach.count_params, 1) :
        /\ mach' = call_py(mach, prog, u, F(1))
        /\ outcome' = [op |-> "call_py", u |-> u, p |-> <<>>, t |-> F(1)]
    /\ UNCHANGED <<prog, cnt, step, phase, frameVars, acode>>

\* the host calls run with buffers of the right lengths or of one more
\* element, u and p of one sign; du holds 99s
HostRun ==
    /\ phase = "run" /\ (IF DOMAIN mach = {} THEN TRUE ELSE mach.pan = "")
    /\ \E ns \in {count(prog.frame, "State") + d : d \in {0, 1}},
          np \in {count(prog.frame, "Param") + d : d \in {0, 1}} :
         \E u \in Slices(ns, 1) :
          \E p \in {v \in Slices(np, 5) : v[1][1] = u[1][1]} :
            /\ mach' = run(mach, prog, [i \in 1..ns |-> F(99)], u, p, F(1)).func
            /\ outcome' = [op |-> "run", u |-> u, p |-> p, t |-> F(1),
                           ret |-> run(mach, prog, [i \in 1..ns |-> F(99)], u, p, F(1)).ret,
                           du |-> run(mach, prog, [i \in 1..ns |-> F(99)], u, p, F(1)).du]
    /\ UNCHANGED <<prog, cnt, step, phase, frameVars, acode>>

NextRun == RunLower \/ RunNew \/ RunnableCall \/ RunnableCallPy \/ HostRun

SpecRun == InitRun /\ [][NextRun]_vars

\* the k-th slot of a kind (k from 1), as a position in the memory
Nth(f, tag, k) ==
    CHOOSE i \in 1..Len(f.words) :
        /\ f.words[i].t = tag
        /\ Cardinality({j \in 1..i : f.words[j].t = tag}) = k

\* C9: a call writes t to the Var slot, u[i] to the i-th State slot and p[j]
\* to the j-th Param slot and nothing else, then runs the backend once on
\* that memory, then copies the i-th Diff slot to du[i].
C9_CallOrder ==
    [][outcome'.op = "call" =>
        LET f == prog.frame
        IN  /\ Len(mach'.image) = Len(mach.mem)
            /\ \A i \in 1..Len(mach.mem) :
                  mach'.image[i] =
                     IF i > Len(f.words) THEN mach.mem[i]
                     ELSE CASE f.words[i].t = "Var" -> outcome'.t
                            [] f.words[i].t = "State" ->
                                  outcome'.u[Cardinality({j \in 1..i : f.words[j].t = "State"})]
                            [] f.words[i].t = "Param" ->
                                  outcome'.p[Cardinality({j \in 1..i : f.words[j].t = "Param"})]
                            [] OTHER -> mach.mem[i]
            /\ mach'.runs = 1
            /\ mach'.mem = ByteCodeFrom(f, virtual_table(prog), mach'.image, prog.code)
            /\ Len(mach'.du) = count(f, "Diff")
            /\ \A k \in 1..Len(mach'.du) : mach'.du[k] = mach'.mem[Nth(f, "Diff", k)]]_vars

\* a call on a model with two states, parameters and observables that
\* returns the products of each state and the first parameter
C9_Witness ==
    /\ outcome.op = "call"
    /\ Len(outcome.u) = 2 /\ Len(outcome.p) = 2 /\ mach.count_obs = 2
    /\ outcome.u = <<F(2), F(3)>> /\ outcome.p = <<F(-6), F(-7)>>
    /\ mach.du = <<F(-12), F(-18)>>

\* C10: call_py leaves, before run, upq[i] in the i-th State slot and
\* upq[ns + j] in the j-th Param slot and overwrites no Diff slot, and
\* returns in output k the k-th Obs slot, the Obs slots being one range.
C10_CallPy ==
    [][outcome'.op = "call_py" =>
        LET f == prog.frame
            ns == count(f, "State")
        IN  /\ \A i \in 1..ns : mach'.image[Nth(f, "State", i)] = outcome'.u[i]
            /\ \A j \in 1..count(f, "Param") :
                  mach'.image[Nth(f, "Param", j)] = outcome'.u[ns + j]
            /\ \A i \in 1..ns : mach'.image[Nth(f, "Diff", i)] = mach.mem[Nth(f, "Diff", i)]
            /\ \A k \in 1..count(f, "Obs") :
                  /\ Nth(f, "Obs", k) = first_obs(f) + k
                  /\ mach'.du[k] = mach'.mem[Nth(f, "Obs", k)]]_vars

\* C11: run returns false exactly when the handle holds no function or ns or
\* np is not the count of states or parameters, and then leaves du and the
\* Runnable (its memory, its run count) as they were; when it returns true
\* Runnable::call has been made and du holds its output.
C11_RunArity ==
    [][outcome'.op = "run" =>
        LET bad == \/ DOMAIN mach = {}
                   \/ Len(outcome'.u) # count(prog.frame, "State")
                   \/ Len(outcome'.p) # count(prog.frame, "Param")
        IN  /\ outcome'.ret = ~bad
            /\ bad => /\ mach' = mach
                      /\ outcome'.du = [i \in 1..Len(outcome'.u) |-> F(99)]
            /\ ~bad => /\ mach'.runs = 1
                       /\ Len(outcome'.du) = Len(outcome'.u)
                       /\ \A k \in 1..Len(outcome'.du) :
                             outcome'.du[k] = mach'.mem[Nth(prog.frame, "Diff", k)]]_vars

\* a run refused for its np alone, on a Runnable that has been called before
C11_Witness ==
    /\ outcome.op = "run" /\ ~outcome.ret
    /\ DOMAIN mach # {} /\ mach.runs = 1
    /\ Len(outcome.u) = mach.count_states /\ Len(outcome.p) # mach.count_params
    /\ outcome.du = [i \in 1..Len(outcome.u) |-> F(99)]

(***************************************************************************)
(* SpecRerun: the lowering of SpecLower, and then two calls of the         *)
(* bytecode with the same inputs: one on the memory of Interpreter::       *)
(* compile, one on a memory in which earlier calls have left junk in every *)
(* Temp, Obs and Diff slot and in the scratch slots.                       *)
(***************************************************************************)
Rerun ==
    \E u \in InVals, junk \in {F(5), F(-7)} :
        /\ phase = "lower" /\ Lowered
        /\ outcome' =
              [u |-> u, junk |-> junk,
               interp |-> ByteCodeRun(prog, WithInputs(prog.frame, F(1), u, F(3))),
               again |-> ByteCodeFrom(prog.frame, virtual_table(prog),
                            [i \in 1..Len(prog.frame.words) |->
                                IF prog.frame.words[i].t \in {"Temp", "Obs", "Diff"} THEN junk
                                ELSE WithInputs(prog.frame, F(1), u, F(3))[i]]
                            \o [i \in 1..stack_size(prog.frame) |-> junk],
                            prog.code)]
        /\ phase' = "ran"
        /\ UNCHANGED <<prog, cnt, step, frameVars, acode, mach>>

NextRerun ==
    \/ LowerConst \/ LowerVar \/ LowerUnary \/ LowerBinary \/ LowerTernary
    \/ LowerPoly \/ LowerEquation \/ Rerun

SpecRerun == InitLower /\ [][NextRerun]_vars

\* C14: a run on given inputs leaves in every Diff and Obs slot the same
\* value whatever the Temp, Obs and Diff slots and the scratch slots held
\* before, so no instruction reads one of them before the run has written
\* it.
C14_InputsOnly ==
    phase = "ran" =>
        \A i \in 1..Len(prog.frame.words) :
            prog.frame.words[i].t \in {"Diff", "Obs"} => outcome.again[i] = outcome.interp[i]

\* two runs of a program that reads an observable and two temporaries, on
\* memories that differ
C14_Witness ==
    /\ phase = "ran"
    /\ \E i \in 1..Len(prog.code) :
          prog.code[i].k \in {"Unary", "Binary"} /\ is_obs(prog.frame, prog.code[i].x)
    /\ Cardinality({i \in 1..Len(prog.code) :
                        prog.code[i].k \in {"Unary", "Binary"}
                        /\ is_temp(prog.frame, prog.code[i].x)}) >= 2
    /\ outcome.junk = F(-7)
    /\ \E i \in 1..Len(prog.frame.words) :
          prog.frame.words[i].t = "Diff" /\ outcome.interp[i] \notin {F(0), outcome.junk}

\* C15: in the code the AmdCompiler emits, every instruction whose dst is an
\* Obs word is followed by a store of a register into the frame slot of that
\* word, whether or not the word is saveable or bufferable.
C15_ObsStored ==
    (phase = "compiled" /\ mach.pan = "") =>
        \A i \in 1..Len(prog.code) :
            (prog.code[i].k \in {"Unary", "Binary", "IfElse"}
             /\ is_obs(prog.frame, prog.code[i].dst)) =>
                \E j \in 1..Len(mach.code) :
                    mach.code[j].i = "store_rbp" /\ mach.code[j].k = prog.code[i].dst[1]

\* C16: ifelse(c, a, b) is a when c > 0 and b otherwise, c = 0 included,
\* for the three instructions if_pos, if_neg, plus that lower_ternary emits
\* and for the IfElse instruction of the interpreter.  The operands looked
\* at are Const, Var, State and Param words, which no instruction writes.
C16_IfElse ==
    phase = "ran" =>
        LET f == prog.frame
            m == WithInputs(f, F(1), outcome.u, F(3))
            leaf(w) == Slot(f, w[1]).t \in {"Const", "Var", "State", "Param"}
        IN  \A i \in 1..(Len(prog.code) - 3) :
              (/\ prog.code[i].op = "if_pos" /\ prog.code[i + 1].op = "if_neg"
               /\ prog.code[i + 2].op = "plus" /\ prog.code[i + 3].op = "mov"
               /\ prog.code[i + 3].x = prog.code[i + 2].dst
               /\ is_diff(f, prog.code[i + 3].dst)
               /\ leaf(prog.code[i].x) /\ leaf(prog.code[i].y) /\ leaf(prog.code[i + 1].y))
              => LET c == m[prog.code[i].x[1] + 1]
                     want == IF ToInt(c) > 0 THEN m[prog.code[i].y[1] + 1]
                             ELSE m[prog.code[i + 1].y[1] + 1]
                     d == prog.code[i + 3].dst
                 IN  /\ F64Eq(outcome.interp[d[1] + 1], want)
                     /\ F64Eq(FastStep(f, virtual_table(prog), m,
                                       IfElse(prog.code[i].y, prog.code[i + 1].y,
                                              prog.code[i].x, d))[d[1] + 1], want)

\* C17: the program of x' = -x, one Unary instruction named "minus" whose
\* table entry is neg and the mov to the Diff slot, leaves -x in the Diff
\* slot when the interpreter runs it and when the machine code runs.
C17_UnaryMinus ==
    (/\ phase = "ran" /\ Len(prog.code) = 3
     /\ prog.code[1].k = "Var" /\ prog.code[1].op = "x"
     /\ prog.code[2].k = "Unary" /\ prog.code[2].op = "minus"
     /\ prog.code[3].op = "mov" /\ is_diff(prog.frame, prog.code[3].dst))
    => /\ virtual_table(prog)[prog.code[2].p + 1] = "neg"
       /\ outcome.interp[prog.code[3].dst[1] + 1] = neg(outcome.u)
       /\ outcome.native[prog.code[3].dst[1] + 1] = neg(outcome.u)

(***************************************************************************)
(* machine.rs: the life of MachineCode objects.  The operating system is   *)
(* the set of files of the working directory, the set of open handles and  *)
(* the set of mappings, each known by the name of its file.                *)
(***************************************************************************)
\* MachineCode::new(arch, ..) on a build for target, name being the string
\* that Alphanumeric.sample_string returned: write_buf, File::open, map_exec
\* and then the test of arch.  A panic unwinds fs and mmap, which closes the
\* handle and the mapping; nothing removes the file.
MachineCodeNew(os, arch, target, name) ==
    IF arch # target
    THEN [os |-> [os EXCEPT !.files = @ \cup {name}], obj |-> <<>>,
          pan |-> "cannot run code", wrote |-> TRUE, mapped |-> TRUE]
    ELSE [os |-> [files |-> os.files \cup {name}, open |-> os.open \cup {name},
                  maps |-> os.maps \cup {name}],
          obj |-> [name |-> name, fs |-> name, mmap |-> name],
          pan |-> "", wrote |-> TRUE, mapped |-> TRUE]

\* drop of a MachineCode that leaves the file in place
drop_keeping_file(os, o) ==
    [os EXCEPT !.maps = @ \ {o.mmap}, !.open = @ \ {o.fs}]

\* impl Drop for MachineCode, and then the drop of the fields mmap and fs
MachineCodeDrop(os, o) ==
    [files |-> os.files \ {o.name}, open |-> os.open \ {o.fs}, maps |-> os.maps \ {o.mmap}]

(***************************************************************************)
(* SpecMachine: up to MaxNew constructions, with the right and the wrong   *)
(* architecture tag, and runs and drops of the objects in any order.  The  *)
(* names are 16 random characters: the model takes them to be new each     *)
(* time.                                                                   *)
(***************************************************************************)
MaxNew == 4

InitMachine ==
    /\ cnt \in [target : {"x86_64", "aarch64"}, news : {0}]
    /\ mach = {}
    /\ outcome = [files |-> {}, open |-> {}, maps |-> {}]
    /\ step = [op |-> "", name |-> 0, pan |-> "", wrote |-> FALSE, mapped |-> FALSE]
    /\ phase = "machine"
    /\ prog = <<>> /\ acode = <<>>
    /\ frame = <<>> /\ last = <<>> /\ failed = ""

NewMachine ==
    /\ phase = "machine" /\ cnt.news < MaxNew
    /\ \E arch \in {"x86_64", "aarch64"} :
         /\ outcome' = MachineCodeNew(outcome, arch, cnt.target, cnt.news + 1).os
         /\ mach' = IF MachineCodeNew(outcome, arch, cnt.target, cnt.news + 1).pan = ""
                    THEN mach \cup {MachineCodeNew(outcome, arch, cnt.target, cnt.news + 1).obj}
                    ELSE mach
         /\ step' = [op |-> "new", name |-> cnt.news + 1,
                     pan |-> MachineCodeNew(outcome, arch, cnt.target, cnt.news + 1).pan,
                     wrote |-> MachineCodeNew(outcome, arch, cnt.target, cnt.news + 1).wrote,
                     mapped |-> MachineCodeNew(outcome, arch, cnt.target, cnt.news + 1).mapped]
    /\ cnt' = [cnt EXCEPT !.news = @ + 1]
    /\ UNCHANGED <<prog, phase, frameVars, acode>>

\* MachineCode::run: the call through p, which is in the mapping
RunMachine ==
    /\ phase = "machine"
    /\ \E o \in mach :
         step' = [op |-> "run", name |-> o.name, pan |-> "",
                  wrote |-> FALSE, mapped |-> o.mmap \in outcome.maps]
    /\ UNCHANGED <<prog, cnt, phase, frameVars, acode, mach, outcome>>

DropMachine ==
    /\ phase = "machine"
    /\ \E o \in mach :
         /\ mach' = mach \ {o}
         /\ outcome' = MachineCodeDrop(outcome, o)
         /\ step' = [op |-> "drop", name |-> o.name, pan |-> "",
                     wrote |-> FALSE, mapped |-> FALSE]
    /\ UNCHANGED <<prog, cnt, phase, frameVars, acode>>

NextMachine == NewMachine \/ RunMachine \/ DropMachine

SpecMachine == InitMachine /\ [][NextMachine]_vars

\* C12: a MachineCode::new that fails on the architecture tag has not
\* written the code file and has not mapped it, and leaves no file behind.
C12_ArchFirst ==
    [][step'.op = "new" /\ step'.pan # "" =>
         /\ ~step'.wrote /\ ~step'.mapped
         /\ outcome'.files = outcome.files]_vars

\* C13: while a MachineCode lives its file, its handle and its mapping
\* exist, during a run too, and its drop removes the file.
C13_HeldUntilDrop ==
    /\ \A o \in mach :
          o.name \in outcome.files /\ o.fs \in outcome.open /\ o.mmap \in outcome.maps
    /\ step.op = "run" => step.mapped
    /\ step.op = "drop" => step.name \notin outcome.files

\* the second of three objects was dropped after a failed construction,
\* while the first and the third live
C13_Witness ==
    /\ step.op = "drop"
    /\ Cardinality(mach) = 2
    /\ \E o \in mach : o.name < step.name
    /\ \E o \in mach : o.name > step.name
    /\ Cardinality(outcome.files) = 3

(***************************************************************************)
(* The instruction encoders: the amd! macro and the text assembler for     *)
(* AMD64, ArmCompiler::op_code and the text assembler for AArch64.  An     *)
(* instruction text is kept as its mnemonic and the shape of its operands, *)
(* which is what the rules of the assemblers tell apart.                   *)
(***************************************************************************)
XmmRegs == 0..7
CmpPreds == {"eq", "lt", "le", "unord", "neq", "nlt", "nle", "ord"}

\* macro modrm_reg!(x, y); the assert is x < 8 && y < 8
modrm_reg(x, y) == 192 + y * 8 + x

\* amd!{cmp<pred>sd xmm(dst), xmm(src)}: make_modrm![0xf2, 0x0f, 0xc2; src, dst; code]
amd_cmpsd(pred, dst, src) ==
    LET code == CASE pred = "eq" -> 0 [] pred = "lt" -> 1 [] pred = "le" -> 2
                  [] pred = "unord" -> 3 [] pred = "neq" -> 4 [] pred = "nlt" -> 5
                  [] pred = "nle" -> 6 [] pred = "ord" -> 7
    IN  [pan |-> IF dst < 8 /\ src < 8 THEN "" ELSE "assertion failed",
         bytes |-> <<242, 15, 194, modrm_reg(src, dst), code>>]

\* Assembler::cmp_xmm_xmm: the arms of the match in their order; the second
\* "eq" arm can never be taken, and "neq" has no arm
cmp_xmm_xmm(pred, dst, src) ==
    LET code == CASE pred = "eq" -> 0 [] pred = "lt" -> 1 [] pred = "le" -> 2
                  [] pred = "unord" -> 3 [] pred = "nlt" -> 5
                  [] pred = "nle" -> 6 [] pred = "ord" -> 7 [] OTHER -> -1
    IN  IF code = -1 THEN [pan |-> "unrecognized comparison", bytes |-> <<>>]
        ELSE [pan |-> "", bytes |-> <<242, 15, 194, 192 + dst * 8 + src, code>>]

\* Assembler::translate on cmp<pred>sd xmm<dst>, xmm<src>: the only rule
\* whose pattern the text matches is the last one, cmp([^s]+)sd
translate(pred, dst, src) ==
    IF dst \in 0..7 /\ src \in 0..7 THEN cmp_xmm_xmm(pred, dst, src)
    ELSE [pan |-> "unrecognized instruction", bytes |-> <<>>]

\* the patterns of arm::Assembler::new, as mnemonic and operand shape
ArmRules ==
    { <<"fmov", "d,d">>, <<"mov", "x,x">>, <<"ldr", "d,[x,#]">>, <<"ldr", "x,[x,#]">>,
      <<"str", "d,[x,#]">>, <<"str", "x,[x,#]">>, <<"ldp", "d,d,[x,#]">>,
      <<"ldp", "x,x,[x,#]">>, <<"stp", "d,d,[x,#]">>, <<"stp", "x,x,[x,#]">>,
      <<"sub", "x,x,#">>, <<"add", "x,x,#">>, <<"fadd", "d,d,d">>, <<"fsub", "d,d,d">>,
      <<"fmul", "d,d,d">>, <<"fdiv", "d,d,d">>, <<"fsqrt", "d,d">>, <<"fneg", "d,d">>,
      <<"and", "v.8b,v.8b,v.8b">>, <<"orr", "v.8b,v.8b,v.8b">>,
      <<"eor", "v.8b,v.8b,v.8b">>, <<"not", "v.8b,v.8b">>, <<"fcmeq", "d,d,d">>,
      <<"fcmlt", "d,d,d">>, <<"fcmle", "d,d,d">>, <<"fcmgt", "d,d,d">>,
      <<"fcmge", "d,d,d">>, <<"blr", "x">>, <<"ret", "">>, <<"fmov", "d,#">> }

\* arm::Assembler::translate: the first rule that matches, or the panic
arm_translate(ins) ==
    IF ins \in ArmRules THEN "" ELSE "unrecognized instruction"

\* ArmCompiler::op_code: the texts handed to Assembler::push, in order; the
\* four arithmetic operators go through arm! and push_u32 and have no text
arm_op_code(op) ==
    CASE op \in {"mov", "plus", "minus", "times", "divide"} -> <<>>
      [] op = "gt"   -> << <<"fcmgt", "d,d,d">> >>
      [] op = "geq"  -> << <<"fcmge", "d,d,d">> >>
      [] op = "lt"   -> << <<"fcmlt", "d,d,d">> >>
      [] op = "leq"  -> << <<"fcmle", "d,d,d">> >>
      [] op = "eq"   -> << <<"cmpeq", "d,d,d">> >>
      [] op = "and"  -> << <<"and", "v.8b,v.8b,v.8b">> >>
      [] op = "or"   -> << <<"orr", "v.8b,v.8b,v.8b">> >>
      [] op = "xor"  -> << <<"eor", "v.8b,v.8b,v.8b">> >>
      [] op = "neg"  -> << <<"fneg", "d,d">> >>
      [] op = "root" -> << <<"fsqrt", "d,d">> >>
      [] op = "neq"  -> << <<"cmpeq", "d,d,d">>, <<"not", "d,d">> >>
      [] OTHER       -> << <<"ldr", "x,[x,#]">>, <<"blr", "x">> >>

ArmOps == {"mov", "plus", "minus", "times", "divide", "gt", "geq", "lt", "leq",
           "eq", "and", "or", "xor", "neg", "root", "neq", "power"}

\* Assembler::push for every text of op_code: the first panic ends it
RECURSIVE arm_push(_)
arm_push(texts) ==
    IF texts = <<>> THEN ""
    ELSE IF arm_translate(Head(texts)) # "" THEN arm_translate(Head(texts))
    ELSE arm_push(Tail(texts))

InitOps ==
    /\ phase = "ops"
    /\ outcome = [op |-> ""]
    /\ mach = <<>> /\ step = <<>> /\ cnt = <<>>
    /\ prog = <<>> /\ acode = <<>>
    /\ frame = <<>> /\ last = <<>> /\ failed = ""

\* one comparison encoded by the macro and by the text assembler
EncodeCmp ==
    /\ phase = "ops"
    /\ \E pred \in CmpPreds, d \in XmmRegs, s \in XmmRegs :
         outcome' = [op |-> "cmp", pred |-> pred, d |-> d, s |-> s,
                     macro |-> amd_cmpsd(pred, d, s), asm |-> translate(pred, d, s)]
    /\ UNCHANGED <<prog, cnt, step, phase, frameVars, acode, mach>>

\* ArmCompiler::op_code for one operator
ArmOpCode ==
    /\ phase = "ops"
    /\ \E op \in ArmOps :
         outcome' = [op |-> "arm", name |-> op, texts |-> arm_op_code(op),
                     pan |-> arm_push(arm_op_code(op))]
    /\ UNCHANGED <<prog, cnt, step, phase, frameVars, acode, mach>>

NextOps == EncodeCmp \/ ArmOpCode

SpecOps == InitOps /\ [][NextOps]_vars

\* C18: for each of the eight predicates and xmm d, s in 0..7 the amd!
\* macro and Assembler::translate both give f2 0f c2, the ModRM byte
\* 0xC0 + 8*d + s and the predicate byte 0..7.
C18_CmpEncoding ==
    outcome.op = "cmp" =>
        LET n == CASE outcome.pred = "eq" -> 0 [] outcome.pred = "lt" -> 1
                   [] outcome.pred = "le" -> 2 [] outcome.pred = "unord" -> 3
                   [] outcome.pred = "neq" -> 4 [] outcome.pred = "nlt" -> 5
                   [] outcome.pred = "nle" -> 6 [] outcome.pred = "ord" -> 7
            want == <<242, 15, 194, 192 + 8 * outcome.d + outcome.s, n>>
        IN  /\ outcome.macro = [pan |-> "", bytes |-> want]
            /\ outcome.asm = [pan |-> "", bytes |-> want]

\* C19: for gt, geq, lt, leq, eq and neq every text that ArmCompiler::op_code
\* pushes is one the AArch64 assembler has a rule for: no panic.
C19_FcmRecognised ==
    (outcome.op = "arm" /\ outcome.name \in {"gt", "geq", "lt", "leq", "eq", "neq"})
        => outcome.pan = ""

(***************************************************************************)
(* SpecTemps: a caller that allocates temporaries and other words and      *)
(* frees each temporary it holds at most once.  outcome keeps what the     *)
(* caller has seen: every word alloc(Temp) returned and the ones it has    *)
(* not freed yet.                                                          *)
(***************************************************************************)
MaxSlots == 7       \* slots in the frame (4 reserved + 3)
MaxCalls == 8       \* alloc and free calls

InitTemps ==
    /\ frame = FrameNew
    /\ last = NoCall
    /\ failed = ""
    /\ outcome = [issued |-> {}, live |-> {}]
    /\ cnt = 0
    /\ phase = "temps"
    /\ prog = <<>> /\ step = <<>> /\ acode = <<>> /\ mach = <<>>

\* Frame::alloc(WordType::Temp)
TempAlloc ==
    /\ phase = "temps" /\ cnt < MaxCalls
    /\ frame.freed # <<>> \/ Len(frame.words) < MaxSlots
    /\ frame' = alloc(frame, Temp).f
    /\ failed' = alloc(frame, Temp).panic
    /\ last' = [op |-> "alloc", t |-> Temp, r |-> NoWord, w |-> alloc(frame, Temp).w]
    /\ outcome' = [issued |-> outcome.issued \cup {alloc(frame, Temp).w},
                   live |-> outcome.live \cup {alloc(frame, Temp).w}]
    /\ cnt' = cnt + 1
    /\ UNCHANGED <<prog, step, phase, acode, mach>>

\* Frame::alloc of a constant, between the temporaries
ConstAlloc ==
    /\ phase = "temps" /\ cnt < MaxCalls
    /\ Len(frame.words) < MaxSlots
    /\ frame' = alloc(frame, Const(F(2))).f
    /\ failed' = alloc(frame, Const(F(2))).panic
    /\ last' = [op |-> "alloc", t |-> Const(F(2)), r |-> NoWord,
                w |-> alloc(frame, Const(F(2))).w]
    /\ cnt' = cnt + 1
    /\ UNCHANGED <<prog, step, phase, acode, mach, outcome>>

\* Frame::free of a temporary the caller holds, or of a word that is no Temp
TempFree ==
    /\ phase = "temps" /\ cnt < MaxCalls
    /\ \E r \in outcome.live \cup {ONE} :
         /\ frame' = free(frame, r).f
         /\ failed' = free(frame, r).panic
         /\ last' = [op |-> "free", t |-> Temp, r |-> r, w |-> NoWord]
         /\ outcome' = [outcome EXCEPT !.live = @ \ {r}]
    /\ cnt' = cnt + 1
    /\ UNCHANGED <<prog, step, phase, acode, mach>>

NextTemps == TempAlloc \/ ConstAlloc \/ TempFree

SpecTemps == InitTemps /\ [][NextTemps]_vars

\* C20: when each temporary is freed at most once, no alloc(Temp) returns an
\* (index, version) word that an earlier alloc(Temp) returned, and no two
\* temporaries that are live have the same index.
C20_TempsUnique ==
    [][/\ (last'.op = "alloc" /\ last'.t = Temp) => last'.w \notin outcome.issued
       /\ \A a \in outcome'.live, b \in outcome'.live : a[1] = b[1] => a = b
       /\ failed' = ""]_vars

\* one slot is live in its third use while another temporary is live and a
\* third one is free
C20_Witness ==
    /\ phase = "temps"
    /\ \E a \in outcome.live, b \in outcome.live : a[2] = 2 /\ a[1] # b[1]
    /\ frame.freed # <<>>

(***************************************************************************)
(* SpecCodegen: AmdCompiler::compile, one instruction of codegen at a      *)
(* time, on the programs lowered from variables, unary and binary trees    *)
(* and ifelse.  mach is the AmdCompiler; outcome has the pass, the number  *)
(* of instructions done in it and the two sets of the analyzer.            *)
(***************************************************************************)
\* the operators that fall to the default arm of op_code: a call through
\* the function table
HostCall(c) ==
    c.k \in {"Unary", "Binary"} /\ c.op \notin {"mov", "neg"} /\ Mnemonic(c.op) = ""

\* compile up to the first call of codegen
GenStart ==
    /\ phase = "lower" /\ Lowered
    /\ mach' = [AmdCompilerNew EXCEPT !.r = ZERO]
    /\ outcome' = [pass |-> 1, pc |-> 0, n |-> 0,
                   saveable |-> find_saveable(AnalyzerNew(prog.code)),
                   bufferable |-> find_bufferable(AnalyzerNew(prog.code))]
    /\ phase' = "codegen"
    /\ UNCHANGED <<prog, cnt, step, frameVars, acode>>

\* one turn of the loop of codegen
GenInstr ==
    /\ phase = "codegen" /\ mach.pan = ""
    /\ outcome.pc < Len(prog.code)
    /\ mach' = CodegenInstr(mach, prog.frame, prog.code[outcome.pc + 1],
                            outcome.saveable, outcome.bufferable)
    /\ outcome' = [outcome EXCEPT !.pc = @ + 1]
    /\ UNCHANGED <<prog, cnt, step, phase, frameVars, acode>>

\* machine_code.clear(), the prologue and the start of the second codegen
GenPassTwo ==
    /\ phase = "codegen" /\ mach.pan = ""
    /\ outcome.pass = 1 /\ outcome.pc = Len(prog.code)
    /\ mach' = [prologue([mach EXCEPT !.mc = <<>>], 8 * capacity(mach)) EXCEPT !.r = ZERO]
    /\ outcome' = [outcome EXCEPT !.pass = 2, !.pc = 0, !.n = 8 * capacity(mach)]
    /\ UNCHANGED <<prog, cnt, step, phase, frameVars, acode>>

\* the epilogue
GenEnd ==
    /\ phase = "codegen" /\ mach.pan = ""
    /\ outcome.pass = 2 /\ outcome.pc = Len(prog.code)
    /\ mach' = epilogue(mach, outcome.n)
    /\ phase' = "compiled"
    /\ UNCHANGED <<prog, cnt, step, frameVars, acode, outcome>>

NextCodegen ==
    \/ LowerVar \/ LowerUnary \/ LowerBinary \/ LowerTernary \/ LowerEquation
    \/ GenStart \/ GenInstr \/ GenPassTwo \/ GenEnd

SpecCodegen == InitLower /\ [][NextCodegen]_vars

\* the steps give the machine code that compile gives
GenAsCompile ==
    phase = "compiled" => mach.mc = compile(prog).code

\* C24: at every host call that codegen emits, the four hold slots are
\* empty.
C24_HoldsEmptyAtCall ==
    [][(/\ phase = "codegen" /\ outcome'.pc = outcome.pc + 1
        /\ HostCall(prog.code[outcome.pc + 1]))
       => \A k \in 1..4 :
             Operands(mach, prog.frame, prog.code[outcome.pc + 1]).buf[k] = NoWord]_vars

\* C26: after a computational instruction codegen saves at most once, by
\* priority: a Diff dst is stored to its frame slot, else a bufferable dst
\* goes through save_buffered, else a saveable dst is stored, else dst stays
\* in the accumulator (r = dst); after a save r is ZERO.
C26_OneSave ==
    [][(phase = "codegen" /\ outcome'.pc = outcome.pc + 1) =>
         \A c \in {prog.code[outcome.pc + 1]} :
           IF c.k \notin {"Unary", "Binary", "IfElse"} THEN mach' = mach
           ELSE \A done \in {[Operate(mach, prog.frame, c) EXCEPT !.r = c.dst]} :
                  /\ mach' =
                       IF is_diff(prog.frame, c.dst)
                       THEN [push_vec(done, Ins("store_rbp", get(done, XMM0), 0, c.dst[1]))
                               EXCEPT !.r = ZERO]
                       ELSE IF c.dst \in outcome.bufferable
                       THEN [save_buffered(done, prog.frame, XMM0, c.dst) EXCEPT !.r = ZERO]
                       ELSE IF c.dst \in outcome.saveable
                       THEN [save_xmm_indirect(done, prog.frame, XMM0, c.dst)
                               EXCEPT !.r = ZERO]
                       ELSE done
                  /\ (Len(mach'.mc) - Len(done.mc))
                       + Cardinality({k \in 1..4 : mach'.buf[k] # done.buf[k]}) <= 1
                  /\ mach' # done => mach'.r = ZERO
                  /\ mach' = done => mach'.r = c.dst]_vars

\* in the second pass a bufferable word, which is saveable too, has just
\* been parked and the accumulator is free
C26_Witness ==
    /\ phase = "codegen" /\ outcome.pass = 2 /\ outcome.pc > 0
    /\ mach.r = ZERO
    /\ prog.code[outcome.pc].dst \in outcome.bufferable \cap outcome.saveable
    /\ \E k \in 1..4 : mach.buf[k] = prog.code[outcome.pc].dst

\* C27: at the operator of every Binary instruction with two different
\* operands, x is read from the register the accumulator is renamed to and
\* y from another register, the one aux1 is renamed to; at a host call y is
\* in the physical XMM1.
C27_OperandsApart ==
    [][(phase = "codegen" /\ outcome'.pc = outcome.pc + 1) =>
         \A c \in {prog.code[outcome.pc + 1]} :
           (c.k = "Binary" /\ c.x # c.y) =>
              \A ops \in {Operands(mach, prog.frame, c)} :
                 /\ get(ops, XMM0) # get(ops, XMM1)
                 /\ HostCall(c) => get(ops, XMM1) = 1]_vars

\* the instructions that write their first xmm operand
WritesXmm(ins, xmm) ==
    /\ ins.i \in {"load_rbp", "load_rsp", "movapd", "andnpd"}
                   \cup {"addsd", "subsd", "mulsd", "divsd", "cmpnlesd", "cmpnltsd",
                         "cmpltsd", "cmplesd", "cmpeqsd", "cmpneqsd", "andpd",
                         "orpd", "xorpd"}
    /\ ins.a = xmm

\* C28: a value that save_buffered has parked in a hold slot is not
\* overwritten before load_buffered takes it out: while the slot keeps its
\* word, no instruction codegen emits writes the register the slot is
\* renamed to.
C28_ParkedKept ==
    [][(phase = "codegen" /\ outcome'.pc = outcome.pc + 1) =>
         \A k \in 0..3 :
           (mach.buf[k + 1] # NoWord /\ mach'.buf[k + 1] = mach.buf[k + 1]) =>
              \A n \in (Len(mach.mc) + 1)..Len(mach'.mc) :
                 ~WritesXmm(mach'.mc[n], get(mach, 4 + k))]_vars

\* C29: when the first pass of codegen ends the scratch stack is empty,
\* and every scratch offset 8 * k of the second pass lies inside the n =
\* 8 * capacity bytes that the prologue reserves.
C29_ScratchInFrame ==
    (phase \in {"codegen", "compiled"} /\ mach.pan = "") =>
       /\ (outcome.pass = 1 /\ outcome.pc = Len(prog.code)) => mach.stack = <<>>
       /\ outcome.pass = 2 =>
             \A m \in 1..Len(mach.mc) :
                mach.mc[m].i \in {"load_rsp", "store_rsp"} =>
                   0 <= mach.mc[m].k /\ 8 * mach.mc[m].k < outcome.n

\* a compiled program whose second pass stores a temporary in the scratch
\* area and loads it again
C29_Witness ==
    /\ phase = "compiled" /\ mach.pan = "" /\ outcome.n > 0
    /\ \E m1, m2 \in 1..Len(mach.mc) :
          /\ m1 < m2
          /\ mach.mc[m1].i = "store_rsp" /\ mach.mc[m2].i = "load_rsp"
          /\ mach.mc[m1].k = mach.mc[m2].k

(***************************************************************************)
(* SpecStack: any sequence of Stack::push and Stack::pop calls on the      *)
(* stack of a new AmdCompiler.  last is the call and the index it          *)
(* returned; outcome is what the caller has seen: the index each word on   *)
(* the stack got from its push, and the largest length so far.             *)
(***************************************************************************)
MaxDepth == 3       \* words on the stack
StackWords == {Word(8, 0), Word(9, 0), Word(9, 1)}

InitStack ==
    /\ mach = AmdCompilerNew
    /\ last = [op |-> "new", w |-> NoWord, ret |-> 0]
    /\ outcome = [idx |-> <<>>, high |-> 0]
    /\ phase = "stack"
    /\ failed = "" /\ frame = <<>>
    /\ prog = <<>> /\ cnt = <<>> /\ step = <<>> /\ acode = <<>>

\* Stack::push(&w), which returns stack.len() - 1
Push ==
    /\ phase = "stack" /\ mach.pan = ""
    /\ Len(mach.stack) < MaxDepth
    /\ \E w \in StackWords :
         /\ mach' = StackPush(mach, w)
         /\ last' = [op |-> "push", w |-> w, ret |-> Len(StackPush(mach, w).stack) - 1]
         /\ outcome' = [idx |-> Append(outcome.idx, Len(StackPush(mach, w).stack) - 1),
                        high |-> IF Len(mach.stack) + 1 > outcome.high
                                 THEN Len(mach.stack) + 1 ELSE outcome.high]
    /\ UNCHANGED <<prog, cnt, step, phase, frame, failed, acode>>

\* Stack::pop(&w), which returns stack.len()
Pop ==
    /\ phase = "stack" /\ mach.pan = ""
    /\ \E w \in StackWords :
         /\ mach' = StackPop(mach, w)
         /\ last' = [op |-> "pop", w |-> w, ret |-> Len(StackPop(mach, w).stack)]
         /\ outcome' = [outcome EXCEPT !.idx = IF @ = <<>> THEN @ ELSE Front(@)]
    /\ UNCHANGED <<prog, cnt, step, phase, frame, failed, acode>>

NextStack == Push \/ Pop

SpecStack == InitStack /\ [][NextStack]_vars

\* C25: pop(w) returns the index that the push of the word it takes off
\* returned; capacity() is the largest length the stack has had, never
\* goes down and is never below the length; pop fails when the stack is
\* empty or its top is not w.
C25_Stack ==
    [][/\ (last'.op = "pop" /\ mach'.pan = "")
            => /\ mach.stack # <<>> /\ mach.stack[Len(mach.stack)] = last'.w
               /\ last'.ret = outcome.idx[Len(outcome.idx)]
       /\ (last'.op = "pop" /\ (mach.stack = <<>> \/ mach.stack[Len(mach.stack)] # last'.w))
            => mach'.pan # ""
       /\ capacity(mach') = outcome'.high
       /\ capacity(mach') >= capacity(mach)
       /\ capacity(mach') >= Len(mach'.stack)]_vars

\* a pop that returns index 1 after the stack has been three deep and
\* another word was pushed at 1 in between
C25_Witness ==
    /\ phase = "stack" /\ mach.pan = ""
    /\ last.op = "pop" /\ last.ret = 1 /\ last.w = Word(9, 1)
    /\ capacity(mach) = 3 /\ Len(mach.stack) = 1

(***************************************************************************)
(* SpecAbi: the frame of the emitted function.  The prologue, one host     *)
(* call and the epilogue, as AmdCompiler emits them for a scratch stack of *)
(* capacity c, run on a processor with rsp, rbx, rbp and a stack memory of *)
(* 8-byte cells; the caller's rsp is a multiple of 16 before its call.     *)
(***************************************************************************)
MaxCap == 4

StackTop == 16 * (MaxCap + 4)

\* the code of compile around a body of one host call
AbiCode(c) ==
    prologue(AmdCompilerNew, 8 * c).mc \o op_code(AmdCompilerNew, "sin", 0).mc
        \o epilogue(AmdCompilerNew, 8 * c).mc

\* the cell of the stack memory at address a
Cell(a) == (a \div 8) + 1

\* one instruction on the processor
AbiExec(ms, ins) ==
    CASE ins.i = "push_rbp" ->
            [ms EXCEPT !.rsp = @ - 8, !.mem[Cell(ms.rsp - 8)] = ms.rbp]
      [] ins.i = "push_rbx" ->
            [ms EXCEPT !.rsp = @ - 8, !.mem[Cell(ms.rsp - 8)] = ms.rbx]
      [] ins.i = "mov_rbp_rdi" -> [ms EXCEPT !.rbp = ms.rdi]
      [] ins.i = "mov_rbx_rdx" -> [ms EXCEPT !.rbx = ms.rdx]
      [] ins.i = "sub_rsp" -> [ms EXCEPT !.rsp = @ - ins.k]
      [] ins.i = "add_rsp" -> [ms EXCEPT !.rsp = @ + ins.k]
      [] ins.i = "pop_rbx" -> [ms EXCEPT !.rbx = ms.mem[Cell(ms.rsp)], !.rsp = @ + 8]
      [] ins.i = "pop_rbp" -> [ms EXCEPT !.rbp = ms.mem[Cell(ms.rsp)], !.rsp = @ + 8]
      [] ins.i = "ret" -> [ms EXCEPT !.rsp = @ + 8]
      [] OTHER -> ms     \* mov rax, [rbx+8*p]; call rax: the callee keeps rsp, rbx, rbp

\* the caller has called the emitted function: the return address is on
\* the stack
InitAbi ==
    /\ phase = "abi"
    /\ \E c \in 0..MaxCap, top \in {StackTop, StackTop - 16},
          bx \in {11, 12}, bp \in {21, 22} :
          /\ outcome = [c |-> c, rsp |-> top - 8, rbx |-> bx, rbp |-> bp]
          /\ mach = [pc |-> 0, rsp |-> top - 8, rbx |-> bx, rbp |-> bp,
                     rdi |-> 31, rdx |-> 32,
                     mem |-> [a \in 1..Cell(StackTop) |->
                                 IF a = Cell(top - 8) THEN 99 ELSE 0]]
    /\ prog = <<>> /\ cnt = <<>> /\ step = <<>> /\ acode = <<>>
    /\ frame = <<>> /\ last = <<>> /\ failed = ""

AbiStep ==
    /\ phase = "abi"
    /\ mach.pc < Len(AbiCode(outcome.c))
    /\ mach' = [AbiExec(mach, AbiCode(outcome.c)[mach.pc + 1]) EXCEPT !.pc = @ + 1]
    /\ phase' = IF AbiCode(outcome.c)[mach.pc + 1].i = "ret" THEN "returned" ELSE "abi"
    /\ UNCHANGED <<prog, cnt, step, frame, last, failed, acode, outcome>>

NextAbi == AbiStep

SpecAbi == InitAbi /\ [][NextAbi]_vars

\* C30: for every capacity c, after the prologue the stack pointer is a
\* multiple of 16 at the host call of a function that a caller with an
\* aligned stack pointer has called.
C30_AlignedAtCall ==
    (phase = "abi" /\ mach.pc < Len(AbiCode(outcome.c))
       /\ AbiCode(outcome.c)[mach.pc + 1].i = "call_rax") => mach.rsp % 16 = 0

\* the function returns with rsp (above the return address), rbx and rbp
\* as they were on entry
AbiRestored ==
    phase = "returned" =>
       /\ mach.rsp = outcome.rsp + 8
       /\ mach.rbx = outcome.rbx /\ mach.rbp = outcome.rbp

\* at the host call rsp is a multiple of 16 exactly for an odd capacity
AbiOddOnly ==
    (phase = "abi" /\ mach.pc < Len(AbiCode(outcome.c))
       /\ AbiCode(outcome.c)[mach.pc + 1].i = "call_rax")
       => (mach.rsp % 16 = 0 <=> outcome.c % 2 = 1)

====
